---- MODULE Spec2Model ----
(***************************************************************************)
(* Inventory-Management-System: the Bills, Sales Orders, Products,          *)
(* Suppliers and Purchase Orders pages with their forms, as state machines. *)
(*                                                                         *)
(* Money is held as an integer number of ten-thousandths of a rupee, so     *)
(* that the paise amounts of the source (1425.00, 450.75, 349.99) and a     *)
(* whole GST percentage of them (x * gst / 100) are exact integers.         *)
(* Every event handler runs to completion, together with the React effects  *)
(* its state changes trigger, as one action.                                *)
(***************************************************************************)
EXTENDS Integers, Sequences, FiniteSets, TLC

VARIABLES
    bills,              \* Bills.tsx: useState(initialBills)
    billModalOpen,      \* Bills.tsx: isModalOpen
    selectedBill,       \* Bills.tsx: selectedBill, <<>> for null, <<bill>> otherwise
    billToDelete,       \* Bills.tsx: billToDelete, "" for null
    billForm,           \* BillFormModal.tsx: formData
    newPaymentAmount,   \* BillFormModal.tsx: newPaymentAmount ("Pay Now")
    billsCreated,       \* number of bills given a new id (`bill-${Date.now()}`)
    orders,             \* SalesOrders.tsx: useState(initialOrders)
    salesModalOpen,     \* SalesOrders.tsx: isModalOpen
    selectedOrder,      \* SalesOrders.tsx: selectedOrder, <<>> for null
    orderToDelete,      \* SalesOrders.tsx: orderToDelete, "" for null
    orderForm,          \* SalesOrderFormModal.tsx: formData
    stock,              \* mockProducts[..].stock, mutated in place by handleSaveOrder
    ordersCreated,      \* number of sales orders given a new id (`so-${Date.now()}`)
    salesSaves,         \* number of runs of handleSaveOrder
    products,           \* Products page: useState(initialProducts)
    productModalOpen,   \* Products page: isModalOpen
    selectedProduct,    \* Products page: selectedProduct, <<>> for null
    productToDelete,    \* Products page: productToDelete, "" for null
    productForm,        \* ProductFormModal: formData
    productsCreated,    \* number of products given a new id
    productSaves,       \* number of runs of handleSaveProduct
    suppliers,          \* Suppliers.tsx: useState(mockSuppliers)
    supplierModalOpen,  \* Suppliers.tsx: isModalOpen
    selectedSupplier,   \* Suppliers.tsx: selectedSupplier, <<>> for null
    supplierToDelete,   \* Suppliers.tsx: supplierToDelete, "" for null
    supplierForm,       \* SupplierFormModal: formData
    purchaseOrders,     \* Purchase Orders page: useState(initialOrders)
    purchaseModalOpen,  \* Purchase Orders page: isModalOpen
    selectedPurchaseOrder,  \* Purchase Orders page: selectedOrder, <<>> for null
    purchaseOrderToDelete,  \* Purchase Orders page: orderToDelete, "" for null
    purchaseOrderForm,  \* PurchaseOrderFormModal: formData
    purchaseOrdersCreated,  \* number of purchase orders given a new id
    purchaseSaves,      \* number of runs of the Purchase Orders page's handleSaveOrder
    toasts,             \* titles of the toasts raised by the last handler that ran
    route               \* App: the location the router shows, one page at a time

billVars == <<bills, billModalOpen, selectedBill, billToDelete, billForm,
              newPaymentAmount, billsCreated>>
salesVars == <<orders, salesModalOpen, selectedOrder, orderToDelete, orderForm,
               stock, ordersCreated, salesSaves>>
\* the Sales Orders page's own state, without the stock of mockProducts
salesPageVars == <<orders, salesModalOpen, selectedOrder, orderToDelete, orderForm,
                   ordersCreated, salesSaves>>
productVars == <<products, productModalOpen, selectedProduct, productToDelete,
                 productForm, productsCreated, productSaves>>
supplierVars == <<suppliers, supplierModalOpen, selectedSupplier, supplierToDelete,
                  supplierForm>>
purchaseVars == <<purchaseOrders, purchaseModalOpen, selectedPurchaseOrder,
                  purchaseOrderToDelete, purchaseOrderForm, purchaseOrdersCreated,
                  purchaseSaves>>
\* what a handler of one page leaves alone: the location and the state of the
\* pages not mounted
outsideBills == <<salesVars, productVars, supplierVars, purchaseVars,
                  route>>
outsideSales == <<billVars, productVars, supplierVars, purchaseVars,
                  route>>
outsideProducts == <<billVars, salesVars, supplierVars, purchaseVars,
                     route>>
outsideSuppliers == <<billVars, salesVars, productVars, purchaseVars,
                      route>>
outsidePurchases == <<billVars, salesPageVars, productVars, supplierVars,
                      route>>
vars == <<bills, billModalOpen, selectedBill, billToDelete, billForm,
          newPaymentAmount, billsCreated, orders, salesModalOpen, selectedOrder,
          orderToDelete, orderForm, stock, ordersCreated, salesSaves,
          products, productModalOpen, selectedProduct, productToDelete,
          productForm, productsCreated, productSaves, suppliers, supplierModalOpen,
          selectedSupplier, supplierToDelete, supplierForm,
          purchaseOrders, purchaseModalOpen, selectedPurchaseOrder,
          purchaseOrderToDelete, purchaseOrderForm, purchaseOrdersCreated,
          purchaseSaves, toasts, route>>

(***************************************************************************)
(* Helpers                                                                 *)
(***************************************************************************)
\* rupees and paise as ten-thousandths of a rupee
Rs(rupees, paise) == (rupees * 100 + paise) * 100

Min(a, b) == IF a <= b THEN a ELSE b

Max(a, b) == IF a >= b THEN a ELSE b

(***************************************************************************)
(* Bounds                                                                  *)
(***************************************************************************)
\* bills recorded through the form in one run
MaxNewBills == 1

\* sales orders created through the form in one run
MaxNewOrders == 1

\* line items the sales order form holds at once
MaxItems == 2

\* line items a form may be grown to in the runs of the whole page
MaxPageItems == 1

\* saves of one page in the runs that go on to delete orders
MaxSavesBeforeDelete == 1

\* saves in the runs that only edit the status of purchase orders
MaxStatusSaves == 4

\* runs of handleSaveOrder in one run of the Sales Orders page
MaxSaves == 2

\* products added through the form in one run
MaxNewProducts == 1

\* runs of handleSaveProduct in one run of the Products page
MaxProductSaves == 2

\* largest stock and minimum stock level the status rule is evaluated on
MaxStockLevel == 12

\* what is typed into Current Stock and Minimum Stock Level and set on the
\* Active Product switch of the product form; -1 stands for a pasted negative
ProductInputs ==
    {<<"stock", -1>>, <<"stock", 10>>, <<"minStock", 0>>, <<"minStock", 5>>,
     <<"isActive", TRUE>>, <<"isActive", FALSE>>}

\* purchase orders created through the form in one run
MaxNewPurchaseOrders == 1

\* line items a purchase order form may be grown to
MaxPurchaseItems == 1

\* runs of the Purchase Orders page's handleSaveOrder in one run of the page
MaxPurchaseSaves == 2

\* the rows added to a purchase order form
PurchaseItemInputs == {[productId |-> "P-003", quantity |-> 2]}

\* what is typed into Shop / Company Name and set on the status switch of the
\* supplier form
SupplierInputs ==
    {<<"shopName", "">>, <<"shopName", "Northwind">>,
     <<"status", "Active">>, <<"status", "Inactive">>}

\* amounts typed into "Pay Now" (a negative one is typed by pasting)
PayNowInputs == {0 - Rs(400, 0), 0, Rs(400, 0)}

(***************************************************************************)
(* Bills page and bill form                                                *)
(***************************************************************************)
BillStatuses == {"Unpaid", "Partially Paid", "Paid"}

\* @/lib/mock-data mockPurchaseOrders, as far as the bill form and the Purchase
\* Orders page read it
mockPurchaseOrders ==
    << [id |-> "po-init-1", referenceNo |-> "PO-00100",
        grandTotal |-> Rs(1425, 0), status |-> "Completed",
        items |-> <<[productId |-> "P-001", quantity |-> 5]>>],
       [id |-> "po-init-2", referenceNo |-> "PO-00101",
        grandTotal |-> Rs(450, 75), status |-> "Completed",
        items |-> <<[productId |-> "P-003", quantity |-> 3]>>],
       [id |-> "po-init-3", referenceNo |-> "PO-00102",
        grandTotal |-> Rs(800, 0), status |-> "Completed",
        items |-> <<[productId |-> "P-005", quantity |-> 2]>>],
       [id |-> "po-init-4", referenceNo |-> "PO-00103",
        grandTotal |-> Rs(200, 0), status |-> "Pending",
        items |-> <<[productId |-> "P-001", quantity |-> 4]>>] >>

\* Bills.tsx initialBills (billNo, supplierName, dates and notes take no part in
\* the payment logic and are left out of the record)
initialBills ==
    << [id |-> "bill-1", purchaseOrderId |-> "po-init-1", poReference |-> "PO-00100",
        amount |-> Rs(1425, 0), paidAmount |-> Rs(1425, 0), status |-> "Paid"],
       [id |-> "bill-2", purchaseOrderId |-> "po-init-2", poReference |-> "PO-00101",
        amount |-> Rs(450, 75), paidAmount |-> 0, status |-> "Unpaid"] >>

\* BillFormModal defaultFormData; id "" stands for the absent id
defaultBillFormData ==
    [id |-> "", purchaseOrderId |-> "", poReference |-> "",
     amount |-> 0, paidAmount |-> 0, status |-> "Unpaid"]

\* ids handed out by `bill-${Date.now()}`
NewBillId(n) == <<"bill-new-1", "bill-new-2", "bill-new-3", "bill-new-4">>[n]

\* BillFormModal useEffect([bill, isOpen]): the form is reloaded from the bill prop
BillFormFor(bill) == IF bill = <<>> THEN defaultBillFormData ELSE bill[1]

\* the Select of purchase orders listing every order
SelectablePurchaseOrdersAny == 1..Len(mockPurchaseOrders)

\* the Select of purchase orders lists the completed ones only
SelectablePurchaseOrders ==
    {i \in 1..Len(mockPurchaseOrders) : mockPurchaseOrders[i].status = "Completed"}

\* totalPaid without the Math.min against the bill amount
TotalPaidUnclamped(fd, newPayment) == fd.paidAmount + newPayment

\* handleSubmit: const totalPaid = Math.min(amount, paidAmount + newPaymentAmount)
TotalPaid(fd, newPayment) == Min(fd.amount, fd.paidAmount + newPayment)

\* the partial-payment check with < in place of <=
InvalidPartialStrict(fd, totalPaid) ==
    fd.status = "Partially Paid" /\ totalPaid < 0

\* handleSubmit: a partial payment of nothing is refused
InvalidPartial(fd, totalPaid) ==
    fd.status = "Partially Paid" /\ totalPaid <= 0

\* finalStatus without the promotion to Paid
FinalStatusAsDeclared(fd, totalPaid) == fd.status

\* finalStatus promoted only when the total exceeds the amount
FinalStatusStrict(fd, totalPaid) ==
    IF fd.status = "Partially Paid" /\ totalPaid > fd.amount
    THEN "Paid" ELSE fd.status

\* handleSubmit: finalStatus, promoted to Paid when a partial payment settles the bill
FinalStatus(fd, totalPaid) ==
    IF fd.status = "Partially Paid" /\ totalPaid >= fd.amount
    THEN "Paid" ELSE fd.status

\* the Paid check comparing against nothing paid instead of the bill amount
InsufficientPaymentIgnored(fd, totalPaid) ==
    fd.status = "Paid" /\ totalPaid < 0

\* handleSubmit: Paid declared with less than the amount paid is refused
InsufficientPayment(fd, totalPaid) ==
    fd.status = "Paid" /\ totalPaid < fd.amount

\* a validation failure that also clears "Pay Now"
RejectSubmitClearing(title) ==
    /\ toasts' = <<title>>
    /\ newPaymentAmount' = 0
    /\ UNCHANGED <<bills, billModalOpen, selectedBill, billToDelete, billForm,
                   billsCreated, outsideBills>>

\* handleSubmit: a validation failure raises a toast and returns
RejectSubmit(title) ==
    /\ toasts' = <<title>>
    /\ UNCHANGED <<billVars, outsideBills>>

\* Bills.tsx handleSaveBill, with the form's effect on the modal closing
HandleSaveBill(data, before) ==
    /\ IF data.id # ""
       THEN /\ bills' = [i \in 1..Len(bills) |->
                            IF bills[i].id = data.id THEN data ELSE bills[i]]
            /\ billsCreated' = billsCreated
            /\ toasts' = before \o <<"Bill updated successfully">>
       ELSE /\ billsCreated < MaxNewBills
            /\ bills' = <<[data EXCEPT !.id = NewBillId(billsCreated + 1)]>> \o bills
            /\ billsCreated' = billsCreated + 1
            /\ toasts' = before \o <<"Bill recorded successfully">>
    /\ billModalOpen' = FALSE
    /\ billForm' = BillFormFor(selectedBill)
    /\ newPaymentAmount' = 0
    /\ UNCHANGED <<selectedBill, billToDelete, outsideBills>>

\* Bills.tsx handleAddBill
HandleAddBill ==
    /\ route = "/bills"
    /\ ~billModalOpen /\ billToDelete = ""
    /\ selectedBill' = <<>>
    /\ billModalOpen' = TRUE
    /\ billForm' = defaultBillFormData
    /\ newPaymentAmount' = 0
    /\ toasts' = <<>>
    /\ UNCHANGED <<bills, billToDelete, billsCreated, outsideBills>>

\* Bills.tsx handleEditBill
HandleEditBill ==
    /\ route = "/bills"
    /\ ~billModalOpen /\ billToDelete = ""
    /\ \E i \in 1..Len(bills) :
          /\ selectedBill' = <<bills[i]>>
          /\ billForm' = bills[i]
    /\ billModalOpen' = TRUE
    /\ newPaymentAmount' = 0
    /\ toasts' = <<>>
    /\ UNCHANGED <<bills, billToDelete, billsCreated, outsideBills>>

\* BillFormModal onClose (Cancel, Escape, click outside)
HandleCloseBillForm ==
    /\ route = "/bills"
    /\ billModalOpen
    /\ billModalOpen' = FALSE
    /\ billForm' = BillFormFor(selectedBill)
    /\ newPaymentAmount' = 0
    /\ toasts' = <<>>
    /\ UNCHANGED <<bills, selectedBill, billToDelete, billsCreated, outsideBills>>

\* BillFormModal handlePurchaseOrderChange; the Select is disabled for a bill with an id
HandlePurchaseOrderChange ==
    /\ route = "/bills"
    /\ billModalOpen
    /\ BillFormFor(selectedBill).id = ""
    /\ \E i \in SelectablePurchaseOrders :
          billForm' = [billForm EXCEPT
                          !.purchaseOrderId = mockPurchaseOrders[i].id,
                          !.poReference = mockPurchaseOrders[i].referenceNo,
                          !.amount = mockPurchaseOrders[i].grandTotal,
                          !.paidAmount = 0]
    /\ toasts' = <<>>
    /\ UNCHANGED <<bills, billModalOpen, selectedBill, billToDelete,
                   newPaymentAmount, billsCreated, outsideBills>>

\* handleStatusChange without the reset of paidAmount on Unpaid
StatusChangePaidAmountKept(fd, status) == fd.paidAmount

\* handleStatusChange: Unpaid clears what was paid
StatusChangePaidAmount(fd, status) ==
    IF status = "Unpaid" THEN 0 ELSE fd.paidAmount

\* handleStatusChange: Paid fills "Pay Now" with the remaining due, Unpaid clears it
StatusChangeNewPayment(fd, newPayment, status) ==
    IF status = "Paid" THEN Max(0, fd.amount - fd.paidAmount)
    ELSE IF status = "Unpaid" THEN 0
    ELSE newPayment

\* BillFormModal handleStatusChange; the Select is disabled until an order is chosen
HandleStatusChange ==
    /\ route = "/bills"
    /\ billModalOpen
    /\ billForm.purchaseOrderId # ""
    /\ \E status \in BillStatuses :
          /\ billForm' = [billForm EXCEPT
                             !.status = status,
                             !.paidAmount = StatusChangePaidAmount(billForm, status)]
          /\ newPaymentAmount' =
                StatusChangeNewPayment(billForm, newPaymentAmount, status)
    /\ toasts' = <<>>
    /\ UNCHANGED <<bills, billModalOpen, selectedBill, billToDelete,
                   billsCreated, outsideBills>>

\* BillFormModal "Pay Now" onChange, rendered for Partially Paid only
HandleNewPaymentChange ==
    /\ route = "/bills"
    /\ billModalOpen
    /\ billForm.status = "Partially Paid"
    /\ \E isNaN \in BOOLEAN, val \in PayNowInputs :
          newPaymentAmount' = IF isNaN THEN 0 ELSE Max(0, val)
    /\ toasts' = <<>>
    /\ UNCHANGED <<bills, billModalOpen, selectedBill, billToDelete, billForm,
                   billsCreated, outsideBills>>

\* BillFormModal handleSubmit
HandleSubmit ==
    /\ route = "/bills"
    /\ billModalOpen
    /\ LET totalPaid == TotalPaid(billForm, newPaymentAmount)
           finalStatus == FinalStatus(billForm, totalPaid)
       IN  IF billForm.purchaseOrderId = ""
           THEN RejectSubmit("Selection Required")
           ELSE IF InvalidPartial(billForm, totalPaid)
           THEN RejectSubmit("Invalid Amount")
           ELSE IF InsufficientPayment(billForm, totalPaid)
           THEN RejectSubmit("Insufficient Payment")
           ELSE HandleSaveBill(
                    [billForm EXCEPT !.status = finalStatus,
                                     !.paidAmount = totalPaid],
                    IF finalStatus # billForm.status
                    THEN <<"Status Updated">> ELSE <<>>)

\* Bills.tsx: the trash button, setBillToDelete(bill.id)
RequestDeleteBill ==
    /\ route = "/bills"
    /\ ~billModalOpen /\ billToDelete = ""
    /\ \E i \in 1..Len(bills) : billToDelete' = bills[i].id
    /\ toasts' = <<>>
    /\ UNCHANGED <<bills, billModalOpen, selectedBill, billForm,
                   newPaymentAmount, billsCreated, outsideBills>>

\* Bills.tsx: AlertDialog Cancel, setBillToDelete(null)
CancelDeleteBill ==
    /\ route = "/bills"
    /\ billToDelete # ""
    /\ billToDelete' = ""
    /\ toasts' = <<>>
    /\ UNCHANGED <<bills, billModalOpen, selectedBill, billForm,
                   newPaymentAmount, billsCreated, outsideBills>>

\* handleDeleteBill with the list left as it was
WithoutBillKept(prev, id) == prev

\* Bills.tsx handleDeleteBill: prev.filter((b) => b.id !== id)
WithoutBill(prev, id) ==
    LET Keep(b) == b.id # id
    IN  SelectSeq(prev, Keep)

\* Bills.tsx handleDeleteBill, from AlertDialog Delete
HandleDeleteBill ==
    /\ route = "/bills"
    /\ billToDelete # ""
    /\ bills' = WithoutBill(bills, billToDelete)
    /\ billToDelete' = ""
    /\ toasts' = <<"Bill deleted">>
    /\ UNCHANGED <<billModalOpen, selectedBill, billForm,
                   newPaymentAmount, billsCreated, outsideBills>>

(***************************************************************************)
(* Sales Orders page and sales order form                                  *)
(***************************************************************************)
OrderStatuses == {"Pending", "Shipped", "Completed", "Cancelled"}

\* @/lib/mock-data mockProducts, as far as the pages read it: the ids and
\* prices are those of the line items of initialOrders
mockProducts ==
    << [id |-> "P-001", sellingPrice |-> Rs(349, 99), stock |-> 5,
        minStock |-> 10, status |-> "Low Stock", isActive |-> TRUE],
       [id |-> "P-003", sellingPrice |-> Rs(19, 99), stock |-> 12,
        minStock |-> 10, status |-> "Active", isActive |-> TRUE],
       [id |-> "P-005", sellingPrice |-> Rs(12, 50), stock |-> 8,
        minStock |-> 5, status |-> "Inactive", isActive |-> FALSE] >>

ProductIds == {mockProducts[i].id : i \in 1..Len(mockProducts)}

\* products.find((p) => p.id === value)
FindProduct(productId) ==
    LET found == {i \in 1..Len(mockProducts) : mockProducts[i].id = productId}
    IN  IF found = {} THEN <<>>
        ELSE <<mockProducts[CHOOSE i \in found : \A j \in found : i <= j]>>

\* SalesOrders.tsx initialOrders (date and notes are left out of the record)
initialOrders ==
    << [id |-> "so-init-1", referenceNo |-> "SO-10025",
        customerName |-> "Alice Smith", status |-> "Completed",
        items |-> << [id |-> "item-1", productId |-> "P-001", quantity |-> 2,
                      sellingPrice |-> Rs(349, 99), total |-> Rs(699, 98)] >>,
        subTotal |-> Rs(699, 98), gstPercentage |-> 18,
        gstAmount |-> Rs(126, 0), grandTotal |-> Rs(825, 98)],
       [id |-> "so-init-2", referenceNo |-> "SO-10026",
        customerName |-> "Bob Jones", status |-> "Pending",
        items |-> << [id |-> "item-2", productId |-> "P-003", quantity |-> 10,
                      sellingPrice |-> Rs(19, 99), total |-> Rs(199, 90)],
                     [id |-> "item-3", productId |-> "P-005", quantity |-> 5,
                      sellingPrice |-> Rs(12, 50), total |-> Rs(62, 50)] >>,
        subTotal |-> Rs(262, 40), gstPercentage |-> 0,
        gstAmount |-> 0, grandTotal |-> Rs(262, 40)] >>

\* SalesOrderFormModal defaultFormData; id "" stands for the absent id
defaultFormData ==
    [id |-> "", referenceNo |-> "", customerName |-> "", status |-> "Pending",
     items |-> <<>>, subTotal |-> 0, gstPercentage |-> 0, gstAmount |-> 0,
     grandTotal |-> 0]

\* the reference numbers Math.random draws from, cut down to a few
RefPool == {"SO-00001", "SO-00002"}

\* generateUniqueRef: a reference number no existing order carries
UniqueRefs(existingOrders) ==
    RefPool \ {existingOrders[i].referenceNo : i \in 1..Len(existingOrders)}

\* the row ids Math.random draws from, cut down to a few
RowIdPool == <<"row-1", "row-2", "row-3", "row-4", "row-5">>

\* generateRowId: an id no row of the form carries (the first free one)
GenerateRowId(items) ==
    LET used == {items[i].id : i \in 1..Len(items)}
        free == {k \in 1..Len(RowIdPool) : RowIdPool[k] \notin used}
    IN  RowIdPool[CHOOSE k \in free : \A j \in free : k <= j]

\* ids handed out by `so-${Date.now()}`
NewOrderId(n) == <<"so-new-1", "so-new-2", "so-new-3", "so-new-4">>[n]

\* items.reduce((sum, item) => sum + item.total, 0)
RECURSIVE SumTotals(_)
SumTotals(items) ==
    IF items = <<>> THEN 0 ELSE Head(items).total + SumTotals(Tail(items))

\* prev.gstPercentage ? (newSubTotal * prev.gstPercentage) / 100 : 0
\* (the inputs keep every subtotal a multiple of 100, so the division is exact)
GstAmountFor(subTotal, gstPercentage) ==
    IF gstPercentage # 0 THEN (subTotal * gstPercentage) \div 100 ELSE 0

\* handleAddItem: setFormData result
AddItemResult(prev) ==
    [prev EXCEPT !.items = Append(@, [id |-> GenerateRowId(prev.items),
                                      productId |-> "", quantity |-> 1,
                                      sellingPrice |-> 0, total |-> 0])]

\* handleRemoveItem with the GST amount and grand total left as they were
RemoveItemResultStaleGst(prev, rowId) ==
    LET Keep(item) == item.id # rowId
        newItems == SelectSeq(prev.items, Keep)
    IN  [prev EXCEPT !.items = newItems, !.subTotal = SumTotals(newItems)]

\* handleRemoveItem with the row taken out and the three totals left as they were
RemoveItemResultTotalsKept(prev, rowId) ==
    LET Keep(item) == item.id # rowId
    IN  [prev EXCEPT !.items = SelectSeq(prev.items, Keep)]

\* handleRemoveItem taking out the first row, whichever row id it was given
RemoveItemResultFirstRow(prev, rowId) ==
    LET newItems == Tail(prev.items)
        newSubTotal == SumTotals(newItems)
        newGstAmount == GstAmountFor(newSubTotal, prev.gstPercentage)
    IN  [prev EXCEPT !.items = newItems,
                     !.subTotal = newSubTotal,
                     !.gstAmount = newGstAmount,
                     !.grandTotal = newSubTotal + newGstAmount]

\* handleRemoveItem: setFormData result
RemoveItemResult(prev, rowId) ==
    LET Keep(item) == item.id # rowId
        newItems == SelectSeq(prev.items, Keep)
        newSubTotal == SumTotals(newItems)
        newGstAmount == GstAmountFor(newSubTotal, prev.gstPercentage)
    IN  [prev EXCEPT !.items = newItems,
                     !.subTotal = newSubTotal,
                     !.gstAmount = newGstAmount,
                     !.grandTotal = newSubTotal + newGstAmount]

\* handleItemChange with the row total not recomputed on a product change
UpdatedItemNoProductRecalc(item, field, value) ==
    LET updatedValue == IF field = "productId" THEN value ELSE Max(0, value)
        withField == [item EXCEPT ![field] = updatedValue]
        product == IF field = "productId" THEN FindProduct(value) ELSE <<>>
        withPrice == IF product # <<>>
                     THEN [withField EXCEPT !.sellingPrice = product[1].sellingPrice]
                     ELSE withField
    IN  IF field = "productId" THEN withPrice
        ELSE [withPrice EXCEPT !.total = withPrice.quantity * withPrice.sellingPrice]

\* handleItemChange without the Math.max(0, value) on a number
UpdatedItemUnclamped(item, field, value) ==
    LET withField == [item EXCEPT ![field] = value]
        product == IF field = "productId" THEN FindProduct(value) ELSE <<>>
        withPrice == IF product # <<>>
                     THEN [withField EXCEPT !.sellingPrice = product[1].sellingPrice]
                     ELSE withField
    IN  [withPrice EXCEPT !.total = withPrice.quantity * withPrice.sellingPrice]

\* handleItemChange: the row with the field set, the price auto-filled on a
\* product change and the row total recomputed
UpdatedItem(item, field, value) ==
    LET updatedValue == IF field = "productId" THEN value ELSE Max(0, value)
        withField == [item EXCEPT ![field] = updatedValue]
        product == IF field = "productId" THEN FindProduct(value) ELSE <<>>
        withPrice == IF product # <<>>
                     THEN [withField EXCEPT !.sellingPrice = product[1].sellingPrice]
                     ELSE withField
    IN  [withPrice EXCEPT !.total = withPrice.quantity * withPrice.sellingPrice]

\* handleItemChange: setFormData result
ItemChangeResult(prev, rowId, field, value) ==
    LET newItems == [i \in 1..Len(prev.items) |->
                        IF prev.items[i].id = rowId
                        THEN UpdatedItem(prev.items[i], field, value)
                        ELSE prev.items[i]]
        newSubTotal == SumTotals(newItems)
        newGstAmount == GstAmountFor(newSubTotal, prev.gstPercentage)
    IN  [prev EXCEPT !.items = newItems,
                     !.subTotal = newSubTotal,
                     !.gstAmount = newGstAmount,
                     !.grandTotal = newSubTotal + newGstAmount]

\* handleGstChange: parseFloat of the input, NaN read as 0, negatives raised to 0
ParsedGst(input) == IF input.nan THEN 0 ELSE Max(0, input.val)

\* handleGstChange taking the GST of the grand total instead of the subtotal
GstChangeResultCompounding(prev, gstPerc) ==
    LET gstAmount == (prev.grandTotal * gstPerc) \div 100
    IN  [prev EXCEPT !.gstPercentage = gstPerc,
                     !.gstAmount = gstAmount,
                     !.grandTotal = prev.subTotal + gstAmount]

\* handleGstChange: setFormData result
GstChangeResult(prev, gstPerc) ==
    LET gstAmount == (prev.subTotal * gstPerc) \div 100
    IN  [prev EXCEPT !.gstPercentage = gstPerc,
                     !.gstAmount = gstAmount,
                     !.grandTotal = prev.subTotal + gstAmount]

\* SalesOrderFormModal useEffect([order, isOpen, existingOrders]): the forms the
\* effect may load, an order prop as it is, no order as the default with a new
\* reference number
FormsFor(order, existingOrders) ==
    IF order # <<>> THEN {order[1]}
    ELSE {[defaultFormData EXCEPT !.referenceNo = r] : r \in UniqueRefs(existingOrders)}

\* the browser's check of the form before onSubmit: Ref No. required, every
\* Qty required with min 1, every Selling Price required (0 renders as empty)
FormIsValid(fd) ==
    /\ fd.referenceNo # ""
    /\ \A i \in 1..Len(fd.items) :
          fd.items[i].quantity >= 1 /\ fd.items[i].sellingPrice > 0

\* handleSaveOrder: data.items.forEach, product.stock -= / += item.quantity
RECURSIVE AdjustStock(_, _, _)
AdjustStock(st, items, sign) ==
    IF items = <<>> THEN st
    ELSE LET item == Head(items)
             next == IF item.productId \in DOMAIN st
                     THEN [st EXCEPT ![item.productId] = @ + sign * item.quantity]
                     ELSE st
         IN  AdjustStock(next, Tail(items), sign)

\* handleSaveOrder with Shipped alone counted as deducted from stock
IsDeductedShippedOnly(status) == status = "Shipped"

\* handleSaveOrder: status counted as deducted from stock
IsDeducted(status) == status = "Shipped" \/ status = "Completed"

\* handleSaveOrder with no branch that gives stock back
IsRevertedNever(wasDeducted, status) == FALSE

\* handleSaveOrder: else if (wasDeducted && data.status === "Cancelled")
IsReverted(wasDeducted, status) == wasDeducted /\ status = "Cancelled"

\* orders.find((o) => o.id === data.id)
FindOrder(list, id) ==
    LET found == {i \in 1..Len(list) : list[i].id = id}
    IN  IF found = {} THEN <<>>
        ELSE <<list[CHOOSE i \in found : \A j \in found : i <= j]>>

\* SalesOrders.tsx handleSaveOrder, with the form's effect on the list changing
\* and the modal closing
HandleSaveOrder(data) ==
    /\ IF data.id # ""
       THEN LET originalOrder == FindOrder(orders, data.id)
                wasDeducted == originalOrder # <<>> /\ IsDeducted(originalOrder[1].status)
                nowDeducted == IsDeducted(data.status)
            IN  /\ orders' = [i \in 1..Len(orders) |->
                                 IF orders[i].id = data.id THEN data ELSE orders[i]]
                /\ ordersCreated' = ordersCreated
                /\ IF ~wasDeducted /\ nowDeducted
                   THEN /\ stock' = AdjustStock(stock, data.items, -1)
                        /\ toasts' = <<"Inventory Updated", "Sales Order updated">>
                   ELSE IF IsReverted(wasDeducted, data.status)
                   THEN /\ stock' = AdjustStock(stock, data.items, 1)
                        /\ toasts' = <<"Stock Reverted", "Sales Order updated">>
                   ELSE /\ stock' = stock
                        /\ toasts' = <<"Sales Order updated">>
       ELSE LET newOrder == [data EXCEPT !.id = NewOrderId(ordersCreated + 1)]
            IN  /\ ordersCreated < MaxNewOrders
                /\ orders' = <<newOrder>> \o orders
                /\ ordersCreated' = ordersCreated + 1
                /\ IF IsDeducted(newOrder.status)
                   THEN /\ stock' = AdjustStock(stock, newOrder.items, -1)
                        /\ toasts' = <<"Inventory Updated", "Sales Order created">>
                   ELSE /\ stock' = stock
                        /\ toasts' = <<"Sales Order created">>
    /\ salesModalOpen' = FALSE
    /\ orderForm' \in FormsFor(selectedOrder, orders')
    /\ salesSaves' = salesSaves + 1
    /\ UNCHANGED <<selectedOrder, orderToDelete, outsideSales>>

\* SalesOrders.tsx handleAddOrder
HandleAddOrder ==
    /\ route = "/sales-orders"
    /\ ~salesModalOpen /\ orderToDelete = ""
    /\ selectedOrder' = <<>>
    /\ salesModalOpen' = TRUE
    /\ orderForm' \in FormsFor(<<>>, orders)
    /\ toasts' = <<>>
    /\ UNCHANGED <<orders, orderToDelete, stock, ordersCreated, salesSaves, outsideSales>>

\* SalesOrders.tsx handleEditOrder
HandleEditOrder ==
    /\ route = "/sales-orders"
    /\ ~salesModalOpen /\ orderToDelete = ""
    /\ \E i \in 1..Len(orders) :
          /\ selectedOrder' = <<orders[i]>>
          /\ orderForm' = orders[i]
    /\ salesModalOpen' = TRUE
    /\ toasts' = <<>>
    /\ UNCHANGED <<orders, orderToDelete, stock, ordersCreated, salesSaves, outsideSales>>

\* SalesOrderFormModal onClose (Cancel, Escape, click outside)
HandleCloseOrderForm ==
    /\ route = "/sales-orders"
    /\ salesModalOpen /\ orderToDelete = ""
    /\ salesModalOpen' = FALSE
    /\ orderForm' \in FormsFor(selectedOrder, orders)
    /\ toasts' = <<>>
    /\ UNCHANGED <<orders, selectedOrder, orderToDelete, stock, ordersCreated,
                   salesSaves, outsideSales>>

\* a handler of the open form that only sets formData
SetOrderForm(fd) ==
    /\ route = "/sales-orders"
    /\ salesModalOpen /\ orderToDelete = ""
    /\ orderForm' = fd
    /\ toasts' = <<>>
    /\ UNCHANGED <<orders, salesModalOpen, selectedOrder, orderToDelete, stock,
                   ordersCreated, salesSaves, outsideSales>>

\* SalesOrderFormModal handleRegenerateRef, shown for a new order only
HandleRegenerateRef ==
    /\ selectedOrder = <<>>
    /\ \E r \in UniqueRefs(orders) :
          SetOrderForm([orderForm EXCEPT !.referenceNo = r])

\* SalesOrderFormModal handleChange, as the status Select calls it
HandleChange(inputs) ==
    \E input \in inputs :
        SetOrderForm([orderForm EXCEPT ![input[1]] = input[2]])

\* SalesOrderFormModal handleAddItem
HandleAddItem(maxItems) ==
    /\ Len(orderForm.items) < maxItems
    /\ SetOrderForm(AddItemResult(orderForm))

\* SalesOrderFormModal handleRemoveItem, from the trash button of a row
HandleRemoveItem ==
    \E i \in 1..Len(orderForm.items) :
        SetOrderForm(RemoveItemResult(orderForm, orderForm.items[i].id))

\* SalesOrderFormModal handleItemChange, from the product Select, the Qty input
\* and the Selling Price input of a row
HandleItemChange(inputs) ==
    \E i \in 1..Len(orderForm.items), input \in inputs :
        SetOrderForm(ItemChangeResult(orderForm, orderForm.items[i].id,
                                      input[1], input[2]))

\* SalesOrderFormModal handleGstChange
HandleGstChange(inputs) ==
    \E input \in inputs :
        SetOrderForm(GstChangeResult(orderForm, ParsedGst(input)))

\* SalesOrderFormModal handleSubmit
HandleSubmitOrder(maxSaves) ==
    /\ route = "/sales-orders"
    /\ salesModalOpen /\ orderToDelete = ""
    /\ salesSaves < maxSaves
    /\ FormIsValid(orderForm)
    /\ HandleSaveOrder(orderForm)

\* SalesOrders.tsx: the trash button of a row of the list, or the form's
\* Delete Order button (shown when editing), setOrderToDelete(id)
RequestDeleteOrder ==
    /\ route = "/sales-orders"
    /\ orderToDelete = ""
    /\ IF salesModalOpen
       THEN /\ selectedOrder # <<>> /\ selectedOrder[1].id # ""
            /\ orderForm.id # ""
            /\ orderToDelete' = orderForm.id
       ELSE \E i \in 1..Len(orders) : orderToDelete' = orders[i].id
    /\ toasts' = <<>>
    /\ UNCHANGED <<orders, salesModalOpen, selectedOrder, orderForm, stock,
                   ordersCreated, salesSaves, outsideSales>>

\* SalesOrders.tsx: AlertDialog Cancel, setOrderToDelete(null)
CancelDeleteOrder ==
    /\ route = "/sales-orders"
    /\ orderToDelete # ""
    /\ orderToDelete' = ""
    /\ toasts' = <<>>
    /\ UNCHANGED <<orders, salesModalOpen, selectedOrder, orderForm, stock,
                   ordersCreated, salesSaves, outsideSales>>

\* handleDeleteOrder with the orders listed above the deleted one removed as well
WithoutOrderAndAbove(prev, id) ==
    LET at == {i \in 1..Len(prev) : prev[i].id = id}
    IN  IF at = {} THEN prev
        ELSE SubSeq(prev, (CHOOSE i \in at : \A j \in at : i <= j) + 1, Len(prev))

\* SalesOrders.tsx handleDeleteOrder: prev.filter((o) => o.id !== id)
WithoutOrder(prev, id) ==
    LET Keep(o) == o.id # id
    IN  SelectSeq(prev, Keep)

\* SalesOrders.tsx handleDeleteOrder, from AlertDialog Delete
HandleDeleteOrder ==
    /\ route = "/sales-orders"
    /\ orderToDelete # ""
    /\ orders' = WithoutOrder(orders, orderToDelete)
    /\ salesModalOpen' = FALSE
    /\ orderToDelete' = ""
    /\ orderForm' \in FormsFor(selectedOrder, orders')
    /\ toasts' = <<"Sales Order deleted">>
    /\ UNCHANGED <<selectedOrder, stock, ordersCreated, salesSaves, outsideSales>>

(***************************************************************************)
(* Products page and product form                                          *)
(***************************************************************************)
\* Products page initialProducts: mockProducts.map((p) => ({...p, isActive:
\* p.isActive})), copies made when the module is loaded (name, category, sku and
\* the prices take no part in the status and are left out of the record)
initialProducts ==
    [i \in 1..Len(mockProducts) |->
        [id |-> mockProducts[i].id, stock |-> mockProducts[i].stock,
         minStock |-> mockProducts[i].minStock, status |-> mockProducts[i].status,
         isActive |-> mockProducts[i].isActive]]

\* ProductFormModal defaultFormData; id "" stands for the absent id
defaultProductFormData ==
    [id |-> "", stock |-> 0, minStock |-> 10, status |-> "Active", isActive |-> TRUE]

\* the ids `P-${Math.floor(Math.random() * 10000)}` draws from, cut down to a few
ProductIdPool == {"P-4711", "P-4712"}

\* ProductFormModal useEffect([product, isOpen]): a product prop is loaded with
\* isActive taken from its status
ProductFormFor(product) ==
    IF product = <<>> THEN defaultProductFormData
    ELSE [product[1] EXCEPT !.isActive = (product[1].status # "Inactive")]

\* calculatedStatus with the low-stock test < in place of <=
CalculatedStatusBelowMin(fd) ==
    IF fd.isActive /\ fd.stock = 0 THEN "Out of Stock"
    ELSE IF fd.isActive /\ fd.stock < fd.minStock THEN "Low Stock"
    ELSE IF fd.isActive THEN "Active" ELSE "Inactive"

\* ProductFormModal handleSubmit: calculatedStatus
CalculatedStatus(fd) ==
    IF fd.isActive /\ fd.stock = 0 THEN "Out of Stock"
    ELSE IF fd.isActive /\ fd.stock <= fd.minStock THEN "Low Stock"
    ELSE IF fd.isActive THEN "Active" ELSE "Inactive"

\* the browser's check of the form before onSubmit: Current Stock and Minimum
\* Stock Level are required and render 0 as empty (the other required fields
\* are taken as filled in)
ProductFormIsValid(fd) == fd.stock > 0 /\ fd.minStock > 0

\* Products page handleSaveProduct, with the form's effect on the modal closing
HandleSaveProduct(data) ==
    /\ IF data.id # ""
       THEN /\ products' = [i \in 1..Len(products) |->
                               IF products[i].id = data.id THEN data ELSE products[i]]
            /\ productsCreated' = productsCreated
            /\ toasts' = <<"Product updated successfully">>
       ELSE /\ productsCreated < MaxNewProducts
            /\ \E id \in ProductIdPool :
                  products' = <<[data EXCEPT !.id = id]>> \o products
            /\ productsCreated' = productsCreated + 1
            /\ toasts' = <<"Product added successfully">>
    /\ productModalOpen' = FALSE
    /\ productForm' = ProductFormFor(selectedProduct)
    /\ productSaves' = productSaves + 1
    /\ UNCHANGED <<selectedProduct, productToDelete, outsideProducts>>

\* Products page handleAddProduct
HandleAddProduct ==
    /\ route = "/products"
    /\ ~productModalOpen /\ productToDelete = ""
    /\ selectedProduct' = <<>>
    /\ productModalOpen' = TRUE
    /\ productForm' = defaultProductFormData
    /\ toasts' = <<>>
    /\ UNCHANGED <<products, productToDelete, productsCreated, productSaves, outsideProducts>>

\* Products page handleEditProduct
HandleEditProduct ==
    /\ route = "/products"
    /\ ~productModalOpen /\ productToDelete = ""
    /\ \E i \in 1..Len(products) :
          /\ selectedProduct' = <<products[i]>>
          /\ productForm' = ProductFormFor(<<products[i]>>)
    /\ productModalOpen' = TRUE
    /\ toasts' = <<>>
    /\ UNCHANGED <<products, productToDelete, productsCreated, productSaves, outsideProducts>>

\* ProductFormModal onClose (Cancel, Escape, click outside)
HandleCloseProductForm ==
    /\ route = "/products"
    /\ productModalOpen
    /\ productModalOpen' = FALSE
    /\ productForm' = ProductFormFor(selectedProduct)
    /\ toasts' = <<>>
    /\ UNCHANGED <<products, selectedProduct, productToDelete, productsCreated,
                   productSaves, outsideProducts>>

\* ProductFormModal handleChange, from Current Stock, Minimum Stock Level and
\* the Active Product switch: a number is raised to 0
HandleProductChange ==
    /\ route = "/products"
    /\ productModalOpen
    /\ \E input \in ProductInputs :
          productForm' = [productForm EXCEPT ![input[1]] =
                             IF input[1] \in {"stock", "minStock"}
                             THEN Max(0, input[2]) ELSE input[2]]
    /\ toasts' = <<>>
    /\ UNCHANGED <<products, productModalOpen, selectedProduct, productToDelete,
                   productsCreated, productSaves, outsideProducts>>

\* ProductFormModal handleSubmit
HandleSubmitProduct ==
    /\ route = "/products"
    /\ productModalOpen
    /\ productSaves < MaxProductSaves
    /\ ProductFormIsValid(productForm)
    /\ HandleSaveProduct([productForm EXCEPT !.status = CalculatedStatus(productForm)])

\* Products page: the trash button of a row, setProductToDelete(id), or the
\* form's Delete button (shown when editing), which also closes the form
RequestDeleteProduct ==
    /\ route = "/products"
    /\ productToDelete = ""
    /\ IF productModalOpen
       THEN /\ selectedProduct # <<>> /\ selectedProduct[1].id # ""
            /\ productToDelete' = productForm.id
            /\ productModalOpen' = FALSE
            /\ productForm' = ProductFormFor(selectedProduct)
       ELSE /\ \E i \in 1..Len(products) : productToDelete' = products[i].id
            /\ UNCHANGED <<productModalOpen, productForm>>
    /\ toasts' = <<>>
    /\ UNCHANGED <<products, selectedProduct, productsCreated, productSaves, outsideProducts>>

\* Products page: AlertDialog Cancel, setProductToDelete(null)
CancelDeleteProduct ==
    /\ route = "/products"
    /\ productToDelete # ""
    /\ productToDelete' = ""
    /\ toasts' = <<>>
    /\ UNCHANGED <<products, productModalOpen, selectedProduct, productForm,
                   productsCreated, productSaves, outsideProducts>>

\* Products page handleDeleteProduct, from AlertDialog Confirm Delete
HandleDeleteProduct ==
    /\ route = "/products"
    /\ productToDelete # ""
    /\ LET Keep(q) == q.id # productToDelete
       IN  products' = SelectSeq(products, Keep)
    /\ productModalOpen' = FALSE
    /\ productToDelete' = ""
    /\ toasts' = <<"Product deleted">>
    /\ UNCHANGED <<selectedProduct, productForm, productsCreated, productSaves, outsideProducts>>

(***************************************************************************)
(* Suppliers page and supplier form                                        *)
(***************************************************************************)
\* @/lib/mock-data mockSuppliers, as far as the Suppliers page reads it
mockSuppliers ==
    << [id |-> "SUP-0001", shopName |-> "Acme Supplies", status |-> "Active"],
       [id |-> "SUP-0002", shopName |-> "Global Traders", status |-> "Inactive"] >>

\* SupplierFormModal defaultFormData (it has no id); contact, email, phone,
\* address and details are left out of the record
defaultSupplierFormData == [id |-> "", shopName |-> "", status |-> "Active"]

\* the ids `SUP-${Math.floor(Math.random() * 10000)}` draws from, cut down to a few
SupplierIdPool == {"SUP-0001", "SUP-4711", "SUP-4712"}

\* generateUniqueId: an id no existing supplier carries
UniqueSupplierIds(existingSuppliers) ==
    SupplierIdPool \ {existingSuppliers[i].id : i \in 1..Len(existingSuppliers)}

\* SupplierFormModal useEffect([supplier, isOpen, existingSuppliers]): the forms
\* the effect may load, a supplier prop as it is, no supplier as the default
\* with a generated id
SupplierFormsFor(supplier, existingSuppliers) ==
    IF supplier # <<>> THEN {supplier[1]}
    ELSE {[defaultSupplierFormData EXCEPT !.id = id] :
             id \in UniqueSupplierIds(existingSuppliers)}

\* the browser's check of the form before onSubmit: Shop / Company Name is
\* required (the other required fields are taken as filled in)
SupplierFormIsValid(fd) == fd.shopName # ""

\* Suppliers.tsx handleSaveSupplier, with the form's effect on the list
\* changing and the modal closing
HandleSaveSupplier(data) ==
    /\ IF data.id # ""
       THEN /\ suppliers' = [i \in 1..Len(suppliers) |->
                                IF suppliers[i].id = data.id THEN data
                                ELSE suppliers[i]]
            /\ toasts' = <<"Supplier updated successfully">>
       ELSE /\ suppliers' = <<data>> \o suppliers
            /\ toasts' = <<"Supplier added successfully">>
    /\ supplierModalOpen' = FALSE
    /\ supplierForm' \in SupplierFormsFor(selectedSupplier, suppliers')
    /\ UNCHANGED <<selectedSupplier, supplierToDelete, outsideSuppliers>>

\* Suppliers.tsx handleAddSupplier
HandleAddSupplier ==
    /\ route = "/suppliers"
    /\ ~supplierModalOpen /\ supplierToDelete = ""
    /\ selectedSupplier' = <<>>
    /\ supplierModalOpen' = TRUE
    /\ supplierForm' \in SupplierFormsFor(<<>>, suppliers)
    /\ toasts' = <<>>
    /\ UNCHANGED <<suppliers, supplierToDelete, outsideSuppliers>>

\* Suppliers.tsx handleEditSupplier
HandleEditSupplier ==
    /\ route = "/suppliers"
    /\ ~supplierModalOpen /\ supplierToDelete = ""
    /\ \E i \in 1..Len(suppliers) :
          /\ selectedSupplier' = <<suppliers[i]>>
          /\ supplierForm' = suppliers[i]
    /\ supplierModalOpen' = TRUE
    /\ toasts' = <<>>
    /\ UNCHANGED <<suppliers, supplierToDelete, outsideSuppliers>>

\* SupplierFormModal onClose (Cancel, Escape, click outside)
HandleCloseSupplierForm ==
    /\ route = "/suppliers"
    /\ supplierModalOpen /\ supplierToDelete = ""
    /\ supplierModalOpen' = FALSE
    /\ supplierForm' \in SupplierFormsFor(selectedSupplier, suppliers)
    /\ toasts' = <<>>
    /\ UNCHANGED <<suppliers, selectedSupplier, supplierToDelete, outsideSuppliers>>

\* a handler of the open supplier form that only sets formData
SetSupplierForm(fd) ==
    /\ route = "/suppliers"
    /\ supplierModalOpen /\ supplierToDelete = ""
    /\ supplierForm' = fd
    /\ toasts' = <<>>
    /\ UNCHANGED <<suppliers, supplierModalOpen, selectedSupplier, supplierToDelete,
                   outsideSuppliers>>

\* SupplierFormModal handleRegenerateId, shown for a new supplier only
HandleRegenerateId ==
    /\ selectedSupplier = <<>>
    /\ \E id \in UniqueSupplierIds(suppliers) :
          SetSupplierForm([supplierForm EXCEPT !.id = id])

\* SupplierFormModal handleChange, from Shop / Company Name and the status switch
HandleSupplierChange ==
    \E input \in SupplierInputs :
        SetSupplierForm([supplierForm EXCEPT ![input[1]] = input[2]])

\* SupplierFormModal handleSubmit
HandleSubmitSupplier ==
    /\ route = "/suppliers"
    /\ supplierModalOpen /\ supplierToDelete = ""
    /\ SupplierFormIsValid(supplierForm)
    /\ HandleSaveSupplier(supplierForm)

\* Suppliers.tsx: the trash button of a row of the list, or the form's Delete
\* button (shown when editing), setSupplierToDelete(id)
RequestDeleteSupplier ==
    /\ route = "/suppliers"
    /\ supplierToDelete = ""
    /\ IF supplierModalOpen
       THEN /\ selectedSupplier # <<>> /\ selectedSupplier[1].id # ""
            /\ supplierForm.id # ""
            /\ supplierToDelete' = supplierForm.id
       ELSE \E i \in 1..Len(suppliers) : supplierToDelete' = suppliers[i].id
    /\ toasts' = <<>>
    /\ UNCHANGED <<suppliers, supplierModalOpen, selectedSupplier, supplierForm,
                   outsideSuppliers>>

\* Suppliers.tsx: AlertDialog Cancel, setSupplierToDelete(null)
CancelDeleteSupplier ==
    /\ route = "/suppliers"
    /\ supplierToDelete # ""
    /\ supplierToDelete' = ""
    /\ toasts' = <<>>
    /\ UNCHANGED <<suppliers, supplierModalOpen, selectedSupplier, supplierForm,
                   outsideSuppliers>>

\* Suppliers.tsx handleDeleteSupplier, from AlertDialog Delete Supplier
HandleDeleteSupplier ==
    /\ route = "/suppliers"
    /\ supplierToDelete # ""
    /\ LET Keep(sup) == sup.id # supplierToDelete
       IN  suppliers' = SelectSeq(suppliers, Keep)
    /\ supplierModalOpen' = FALSE
    /\ supplierToDelete' = ""
    /\ supplierForm' \in SupplierFormsFor(selectedSupplier, suppliers')
    /\ toasts' = <<"Supplier removed">>
    /\ UNCHANGED <<selectedSupplier, outsideSuppliers>>

(***************************************************************************)
(* Purchase Orders page and purchase order form                            *)
(***************************************************************************)
\* the statuses the Purchase Orders page knows (getStatusBadgeVariant)
PurchaseOrderStatuses == {"Pending", "Completed", "Cancelled"}

\* Purchase Orders page initialOrders = mockPurchaseOrders
initialPurchaseOrders == mockPurchaseOrders

\* ids handed out by `po-${Date.now()}`
NewPurchaseOrderId(n) == <<"po-new-1", "po-new-2", "po-new-3", "po-new-4">>[n]

\* PurchaseOrderFormModal: the form of a new order; id "" stands for the absent id
defaultPurchaseOrderFormData ==
    [id |-> "", referenceNo |-> "", grandTotal |-> 0, status |-> "Pending",
     items |-> <<>>]

\* PurchaseOrderFormModal: the reference numbers given to a new order
PurchaseRefPool == {"PO-00001", "PO-00002"}

\* PurchaseOrderFormModal: the forms loaded for the order prop, an order as it
\* is, no order as the default with a reference no existing order carries
PurchaseOrderFormsFor(order, existingOrders) ==
    IF order # <<>> THEN {order[1]}
    ELSE {[defaultPurchaseOrderFormData EXCEPT !.referenceNo = r] :
             r \in PurchaseRefPool
                   \ {existingOrders[i].referenceNo : i \in 1..Len(existingOrders)}}

\* handleSaveOrder receiving on every save as Completed, whatever the order was
IsReceivedOnEveryCompleted(originalStatus, newStatus) == newStatus = "Completed"

\* the Purchase Orders page's handleSaveOrder: the order moved to Completed and
\* its quantities are received into stock
IsReceived(originalStatus, newStatus) ==
    originalStatus # "Completed" /\ newStatus = "Completed"

\* the Purchase Orders page's handleSaveOrder, with the form reloaded on the
\* list changing and the modal closing
HandleSavePurchaseOrder(data) ==
    /\ IF data.id # ""
       THEN LET originalOrder == FindOrder(purchaseOrders, data.id)
                originalStatus == IF originalOrder = <<>> THEN "undefined"
                                  ELSE originalOrder[1].status
            IN  /\ purchaseOrders' =
                      [i \in 1..Len(purchaseOrders) |->
                          IF purchaseOrders[i].id = data.id THEN data
                          ELSE purchaseOrders[i]]
                /\ purchaseOrdersCreated' = purchaseOrdersCreated
                /\ IF IsReceived(originalStatus, data.status)
                   THEN /\ stock' = AdjustStock(stock, data.items, 1)
                        /\ toasts' = <<"Stock Updated", "Purchase Order updated">>
                   ELSE /\ stock' = stock
                        /\ toasts' = <<"Purchase Order updated">>
       ELSE LET newOrder ==
                    [data EXCEPT !.id = NewPurchaseOrderId(purchaseOrdersCreated + 1)]
            IN  /\ purchaseOrdersCreated < MaxNewPurchaseOrders
                /\ purchaseOrders' = <<newOrder>> \o purchaseOrders
                /\ purchaseOrdersCreated' = purchaseOrdersCreated + 1
                /\ IF newOrder.status = "Completed"
                   THEN /\ stock' = AdjustStock(stock, newOrder.items, 1)
                        /\ toasts' = <<"Stock Updated", "Purchase Order created">>
                   ELSE /\ stock' = stock
                        /\ toasts' = <<"Purchase Order created">>
    /\ purchaseModalOpen' = FALSE
    /\ purchaseOrderForm' \in
          PurchaseOrderFormsFor(selectedPurchaseOrder, purchaseOrders')
    /\ purchaseSaves' = purchaseSaves + 1
    /\ UNCHANGED <<selectedPurchaseOrder, purchaseOrderToDelete, outsidePurchases>>

\* the Purchase Orders page's handleAddOrder
HandleAddPurchaseOrder ==
    /\ route = "/purchase-orders"
    /\ ~purchaseModalOpen /\ purchaseOrderToDelete = ""
    /\ selectedPurchaseOrder' = <<>>
    /\ purchaseModalOpen' = TRUE
    /\ purchaseOrderForm' \in PurchaseOrderFormsFor(<<>>, purchaseOrders)
    /\ toasts' = <<>>
    /\ UNCHANGED <<purchaseOrders, purchaseOrderToDelete, purchaseOrdersCreated,
                   purchaseSaves, stock, outsidePurchases>>

\* the Purchase Orders page's handleEditOrder
HandleEditPurchaseOrder ==
    /\ route = "/purchase-orders"
    /\ ~purchaseModalOpen /\ purchaseOrderToDelete = ""
    /\ \E i \in 1..Len(purchaseOrders) :
          /\ selectedPurchaseOrder' = <<purchaseOrders[i]>>
          /\ purchaseOrderForm' = purchaseOrders[i]
    /\ purchaseModalOpen' = TRUE
    /\ toasts' = <<>>
    /\ UNCHANGED <<purchaseOrders, purchaseOrderToDelete, purchaseOrdersCreated,
                   purchaseSaves, stock, outsidePurchases>>

\* PurchaseOrderFormModal onClose
HandleClosePurchaseOrderForm ==
    /\ route = "/purchase-orders"
    /\ purchaseModalOpen /\ purchaseOrderToDelete = ""
    /\ purchaseModalOpen' = FALSE
    /\ purchaseOrderForm' \in
          PurchaseOrderFormsFor(selectedPurchaseOrder, purchaseOrders)
    /\ toasts' = <<>>
    /\ UNCHANGED <<purchaseOrders, selectedPurchaseOrder, purchaseOrderToDelete,
                   purchaseOrdersCreated, purchaseSaves, stock, outsidePurchases>>

\* a handler of the open purchase order form that only sets formData
SetPurchaseOrderForm(fd) ==
    /\ route = "/purchase-orders"
    /\ purchaseModalOpen /\ purchaseOrderToDelete = ""
    /\ purchaseOrderForm' = fd
    /\ toasts' = <<>>
    /\ UNCHANGED <<purchaseOrders, purchaseModalOpen, selectedPurchaseOrder,
                   purchaseOrderToDelete, purchaseOrdersCreated, purchaseSaves,
                   stock, outsidePurchases>>

\* PurchaseOrderFormModal: the status picked
HandlePurchaseStatusChange ==
    \E status \in PurchaseOrderStatuses :
        SetPurchaseOrderForm([purchaseOrderForm EXCEPT !.status = status])

\* PurchaseOrderFormModal: a row added for a product and a quantity
HandlePurchaseAddItem ==
    /\ Len(purchaseOrderForm.items) < MaxPurchaseItems
    /\ \E item \in PurchaseItemInputs :
          SetPurchaseOrderForm([purchaseOrderForm EXCEPT !.items = Append(@, item)])

\* PurchaseOrderFormModal: the form submitted, onSave(formData)
HandleSubmitPurchaseOrder(maxSaves) ==
    /\ route = "/purchase-orders"
    /\ purchaseModalOpen /\ purchaseOrderToDelete = ""
    /\ purchaseSaves < maxSaves
    /\ HandleSavePurchaseOrder(purchaseOrderForm)

\* the Purchase Orders page's handleGenerateBill: the toast it raises, the
\* error and an early return for an order that is not Completed
GenerateBillToasts(order) ==
    IF order.status # "Completed" THEN <<"Error">> ELSE <<"Bill Generated">>

\* the Purchase Orders page's handleGenerateBill, from the row's button
HandleGenerateBill ==
    /\ route = "/purchase-orders"
    /\ ~purchaseModalOpen /\ purchaseOrderToDelete = ""
    /\ \E i \in 1..Len(purchaseOrders) :
          toasts' = GenerateBillToasts(purchaseOrders[i])
    /\ UNCHANGED <<purchaseVars, stock, outsidePurchases>>

\* the Purchase Orders page: the trash button of a row of the list, or the
\* form's onDelete, setOrderToDelete(id)
RequestDeletePurchaseOrder ==
    /\ route = "/purchase-orders"
    /\ purchaseOrderToDelete = ""
    /\ IF purchaseModalOpen
       THEN /\ selectedPurchaseOrder # <<>>
            /\ purchaseOrderForm.id # ""
            /\ purchaseOrderToDelete' = purchaseOrderForm.id
       ELSE \E i \in 1..Len(purchaseOrders) :
               purchaseOrderToDelete' = purchaseOrders[i].id
    /\ toasts' = <<>>
    /\ UNCHANGED <<purchaseOrders, purchaseModalOpen, selectedPurchaseOrder,
                   purchaseOrderForm, purchaseOrdersCreated, purchaseSaves,
                   stock, outsidePurchases>>

\* the Purchase Orders page: AlertDialog Cancel, setOrderToDelete(null)
CancelDeletePurchaseOrder ==
    /\ route = "/purchase-orders"
    /\ purchaseOrderToDelete # ""
    /\ purchaseOrderToDelete' = ""
    /\ toasts' = <<>>
    /\ UNCHANGED <<purchaseOrders, purchaseModalOpen, selectedPurchaseOrder,
                   purchaseOrderForm, purchaseOrdersCreated, purchaseSaves,
                   stock, outsidePurchases>>

\* the Purchase Orders page's handleDeleteOrder: prev.filter((o) => o.id !== id)
WithoutPurchaseOrder(prev, id) ==
    LET Keep(o) == o.id # id
    IN  SelectSeq(prev, Keep)

\* the Purchase Orders page's handleDeleteOrder, from AlertDialog Delete
HandleDeletePurchaseOrder ==
    /\ route = "/purchase-orders"
    /\ purchaseOrderToDelete # ""
    /\ purchaseOrders' = WithoutPurchaseOrder(purchaseOrders, purchaseOrderToDelete)
    /\ purchaseModalOpen' = FALSE
    /\ purchaseOrderToDelete' = ""
    /\ purchaseOrderForm' \in
          PurchaseOrderFormsFor(selectedPurchaseOrder, purchaseOrders')
    /\ toasts' = <<"Purchase Order deleted">>
    /\ UNCHANGED <<selectedPurchaseOrder, purchaseOrdersCreated, purchaseSaves,
                   stock, outsidePurchases>>

(***************************************************************************)
(* Inputs                                                                  *)
(***************************************************************************)
\* what is picked and typed in a row of the sales order form: a product, a
\* quantity, a price; -1 stands for a pasted negative number
ItemInputs ==
    {<<"productId", "P-001">>, <<"quantity", -1>>, <<"quantity", 2>>,
     <<"sellingPrice", -1>>, <<"sellingPrice", Rs(349, 99)>>}

\* the same for the runs of the whole page, where the saves multiply the states
PageItemInputs == {<<"productId", "P-001">>, <<"quantity", 3>>}

\* what is typed into GST (%): nothing, a pasted negative, 18
GstInputs ==
    {[nan |-> TRUE, val |-> 0], [nan |-> FALSE, val |-> -5],
     [nan |-> FALSE, val |-> 18]}

\* the product picked in a row, for the runs that follow the stock
StockItemInputs == {<<"productId", "P-001">>}

\* status picked in the form
FormFieldInputs == {<<"status", "Shipped">>}

\* the same for the runs of the whole page: every status
PageFieldInputs == {<<"status", st>> : st \in OrderStatuses}

(***************************************************************************)
(* Specifications                                                          *)
(***************************************************************************)
\* the router mounts one page at a time: the other page has no state, and
\* mockProducts keeps its stock
BillsUnmounted ==
    /\ bills = <<>>
    /\ billModalOpen = FALSE
    /\ selectedBill = <<>>
    /\ billToDelete = ""
    /\ billForm = defaultBillFormData
    /\ newPaymentAmount = 0
    /\ billsCreated = 0

SalesUnmounted ==
    /\ orders = <<>>
    /\ salesModalOpen = FALSE
    /\ selectedOrder = <<>>
    /\ orderToDelete = ""
    /\ orderForm = defaultFormData
    /\ stock = [id \in ProductIds |-> FindProduct(id)[1].stock]
    /\ ordersCreated = 0
    /\ salesSaves = 0

ProductsUnmounted ==
    /\ products = <<>>
    /\ productModalOpen = FALSE
    /\ selectedProduct = <<>>
    /\ productToDelete = ""
    /\ productForm = defaultProductFormData
    /\ productsCreated = 0
    /\ productSaves = 0

SuppliersUnmounted ==
    /\ suppliers = <<>>
    /\ supplierModalOpen = FALSE
    /\ selectedSupplier = <<>>
    /\ supplierToDelete = ""
    /\ supplierForm = defaultSupplierFormData

\* the Purchase Orders page not mounted; the stock of mockProducts is stated by
\* the page that is
PurchasesUnmounted ==
    /\ purchaseOrders = <<>>
    /\ purchaseModalOpen = FALSE
    /\ selectedPurchaseOrder = <<>>
    /\ purchaseOrderToDelete = ""
    /\ purchaseOrderForm = defaultPurchaseOrderFormData
    /\ purchaseOrdersCreated = 0
    /\ purchaseSaves = 0

InitBills ==
    /\ route = "/bills"
    /\ bills = initialBills
    /\ billModalOpen = FALSE
    /\ selectedBill = <<>>
    /\ billToDelete = ""
    /\ billForm = defaultBillFormData
    /\ newPaymentAmount = 0
    /\ billsCreated = 0
    /\ SalesUnmounted
    /\ ProductsUnmounted
    /\ SuppliersUnmounted
    /\ PurchasesUnmounted
    /\ toasts = <<>>

InitSales ==
    /\ route = "/sales-orders"
    /\ orders = initialOrders
    /\ salesModalOpen = FALSE
    /\ selectedOrder = <<>>
    /\ orderToDelete = ""
    /\ orderForm \in FormsFor(<<>>, initialOrders)
    /\ stock = [id \in ProductIds |-> FindProduct(id)[1].stock]
    /\ ordersCreated = 0
    /\ salesSaves = 0
    /\ BillsUnmounted
    /\ ProductsUnmounted
    /\ SuppliersUnmounted
    /\ PurchasesUnmounted
    /\ toasts = <<>>

InitProducts ==
    /\ route = "/products"
    /\ products = initialProducts
    /\ productModalOpen = FALSE
    /\ selectedProduct = <<>>
    /\ productToDelete = ""
    /\ productForm = defaultProductFormData
    /\ productsCreated = 0
    /\ productSaves = 0
    /\ BillsUnmounted
    /\ SalesUnmounted
    /\ SuppliersUnmounted
    /\ PurchasesUnmounted
    /\ toasts = <<>>

InitSuppliers ==
    /\ route = "/suppliers"
    /\ suppliers = mockSuppliers
    /\ supplierModalOpen = FALSE
    /\ selectedSupplier = <<>>
    /\ supplierToDelete = ""
    /\ supplierForm \in SupplierFormsFor(<<>>, mockSuppliers)
    /\ BillsUnmounted
    /\ SalesUnmounted
    /\ ProductsUnmounted
    /\ PurchasesUnmounted
    /\ toasts = <<>>

InitPurchases ==
    /\ route = "/purchase-orders"
    /\ purchaseOrders = initialPurchaseOrders
    /\ purchaseModalOpen = FALSE
    /\ selectedPurchaseOrder = <<>>
    /\ purchaseOrderToDelete = ""
    /\ purchaseOrderForm \in PurchaseOrderFormsFor(<<>>, initialPurchaseOrders)
    /\ purchaseOrdersCreated = 0
    /\ purchaseSaves = 0
    /\ BillsUnmounted
    /\ SalesUnmounted
    /\ ProductsUnmounted
    /\ SuppliersUnmounted
    /\ toasts = <<>>

NextBills ==
    \/ HandleAddBill
    \/ HandleEditBill
    \/ HandleCloseBillForm
    \/ HandlePurchaseOrderChange
    \/ HandleStatusChange
    \/ HandleNewPaymentChange
    \/ HandleSubmit
    \/ RequestDeleteBill
    \/ CancelDeleteBill
    \/ HandleDeleteBill

\* the Bills page
SpecBills == InitBills /\ [][NextBills]_vars

NextSalesForm ==
    \/ HandleAddOrder
    \/ HandleEditOrder
    \/ HandleCloseOrderForm
    \/ HandleRegenerateRef
    \/ HandleChange(FormFieldInputs)
    \/ HandleAddItem(MaxItems)
    \/ HandleRemoveItem
    \/ HandleItemChange(ItemInputs)
    \/ HandleGstChange(GstInputs)

\* the sales order form, opened, edited and closed without a save
SpecSalesForm == InitSales /\ [][NextSalesForm]_vars

NextSales ==
    \/ HandleAddOrder
    \/ HandleEditOrder
    \/ HandleCloseOrderForm
    \/ HandleChange(PageFieldInputs)
    \/ HandleAddItem(MaxPageItems)
    \/ HandleItemChange(PageItemInputs)
    \/ HandleSubmitOrder(MaxSaves)
    \/ RequestDeleteOrder
    \/ CancelDeleteOrder
    \/ HandleDeleteOrder

\* the Sales Orders page; its runs take a cut of the form's inputs, the form's
\* handlers are run in full under SpecSalesForm
SpecSales == InitSales /\ [][NextSales]_vars

NextProducts ==
    \/ HandleAddProduct
    \/ HandleEditProduct
    \/ HandleCloseProductForm
    \/ HandleProductChange
    \/ HandleSubmitProduct
    \/ RequestDeleteProduct
    \/ CancelDeleteProduct
    \/ HandleDeleteProduct

\* the Products page
SpecProducts == InitProducts /\ [][NextProducts]_vars

NextSuppliers ==
    \/ HandleAddSupplier
    \/ HandleEditSupplier
    \/ HandleCloseSupplierForm
    \/ HandleRegenerateId
    \/ HandleSupplierChange
    \/ HandleSubmitSupplier
    \/ RequestDeleteSupplier
    \/ CancelDeleteSupplier
    \/ HandleDeleteSupplier

\* the Suppliers page
SpecSuppliers == InitSuppliers /\ [][NextSuppliers]_vars

NextPurchases ==
    \/ HandleAddPurchaseOrder
    \/ HandleEditPurchaseOrder
    \/ HandleClosePurchaseOrderForm
    \/ HandlePurchaseStatusChange
    \/ HandlePurchaseAddItem
    \/ HandleSubmitPurchaseOrder(MaxPurchaseSaves)
    \/ HandleGenerateBill
    \/ RequestDeletePurchaseOrder
    \/ CancelDeletePurchaseOrder
    \/ HandleDeletePurchaseOrder

\* the Purchase Orders page
SpecPurchases == InitPurchases /\ [][NextPurchases]_vars

NextSalesStock ==
    \/ HandleAddOrder
    \/ HandleEditOrder
    \/ HandleCloseOrderForm
    \/ HandleChange(PageFieldInputs)
    \/ HandleAddItem(MaxPageItems)
    \/ HandleItemChange(StockItemInputs)
    \/ HandleSubmitOrder(MaxSaves)

\* the Sales Orders page with orders created, edited and saved, none deleted
SpecSalesStock == InitSales /\ [][NextSalesStock]_vars

NextPurchaseStock ==
    \/ HandleAddPurchaseOrder
    \/ HandleEditPurchaseOrder
    \/ HandleClosePurchaseOrderForm
    \/ HandlePurchaseStatusChange
    \/ HandlePurchaseAddItem
    \/ HandleSubmitPurchaseOrder(MaxPurchaseSaves)

\* the Purchase Orders page with orders created, edited and saved, none deleted
SpecPurchaseStock == InitPurchases /\ [][NextPurchaseStock]_vars

NextPurchaseStatus ==
    \/ HandleEditPurchaseOrder
    \/ HandleClosePurchaseOrderForm
    \/ HandlePurchaseStatusChange
    \/ HandleSubmitPurchaseOrder(MaxStatusSaves)

\* the Purchase Orders page with the status of the listed orders edited and
\* saved: no order created or deleted, no line item changed
SpecPurchaseStatus == InitPurchases /\ [][NextPurchaseStatus]_vars

InitBilling == InitBills \/ InitPurchases

NextBilling ==
    \/ HandleAddBill
    \/ HandleEditBill
    \/ HandleCloseBillForm
    \/ HandlePurchaseOrderChange
    \/ HandleStatusChange
    \/ HandleNewPaymentChange
    \/ HandleSubmit
    \/ HandleEditPurchaseOrder
    \/ HandleClosePurchaseOrderForm
    \/ HandlePurchaseStatusChange
    \/ HandleSubmitPurchaseOrder(MaxPurchaseSaves)
    \/ HandleGenerateBill

\* the Bills page or the Purchase Orders page, whichever the router shows:
\* bills recorded in the form, and bills generated from the list of orders
SpecBilling == InitBilling /\ [][NextBilling]_vars

InitRecordPages == InitBills \/ InitSales \/ InitSuppliers \/ InitProducts

NextRecordDeletion ==
    \/ HandleAddBill
    \/ HandleEditBill
    \/ HandleCloseBillForm
    \/ HandlePurchaseOrderChange
    \/ HandleSubmit
    \/ RequestDeleteBill
    \/ CancelDeleteBill
    \/ HandleDeleteBill
    \/ HandleAddOrder
    \/ HandleEditOrder
    \/ HandleCloseOrderForm
    \/ HandleChange(PageFieldInputs)
    \/ HandleSubmitOrder(MaxSavesBeforeDelete)
    \/ RequestDeleteOrder
    \/ CancelDeleteOrder
    \/ HandleDeleteOrder
    \/ HandleAddSupplier
    \/ HandleEditSupplier
    \/ HandleCloseSupplierForm
    \/ HandleSupplierChange
    \/ HandleSubmitSupplier
    \/ RequestDeleteSupplier
    \/ CancelDeleteSupplier
    \/ HandleDeleteSupplier
    \/ HandleAddProduct
    \/ HandleEditProduct
    \/ HandleCloseProductForm
    \/ HandleProductChange
    \/ HandleSubmitProduct
    \/ RequestDeleteProduct
    \/ CancelDeleteProduct
    \/ HandleDeleteProduct

\* the Bills, Sales Orders, Suppliers or Products page, whichever the router
\* shows: records added, edited, saved, and deleted through the dialog
SpecRecordDeletion == InitRecordPages /\ [][NextRecordDeletion]_vars

InitOrderPages == InitSales \/ InitPurchases

NextOrderDeletion ==
    \/ HandleEditOrder
    \/ HandleCloseOrderForm
    \/ HandleChange(PageFieldInputs)
    \/ HandleSubmitOrder(MaxSavesBeforeDelete)
    \/ RequestDeleteOrder
    \/ CancelDeleteOrder
    \/ HandleDeleteOrder
    \/ HandleEditPurchaseOrder
    \/ HandleClosePurchaseOrderForm
    \/ HandlePurchaseStatusChange
    \/ HandleSubmitPurchaseOrder(MaxSavesBeforeDelete)
    \/ RequestDeletePurchaseOrder
    \/ CancelDeletePurchaseOrder
    \/ HandleDeletePurchaseOrder

\* the Sales Orders page or the Purchase Orders page, whichever the router
\* shows: orders edited, saved and deleted
SpecOrderDeletion == InitOrderPages /\ [][NextOrderDeletion]_vars

(***************************************************************************)
(* Properties of the bill form (SpecBills)                                 *)
(***************************************************************************)
\* min(amount, paidAmount + newPaymentAmount) of the form before a step, written out
ExpectedTotalPaid ==
    IF billForm.amount <= billForm.paidAmount + newPaymentAmount
    THEN billForm.amount
    ELSE billForm.paidAmount + newPaymentAmount

\* the step is a run of handleSubmit: every other handler of the open form
\* raises no toast
SubmitStep == billModalOpen /\ toasts' # <<>>

\* the step is a run of handleSubmit that called onSave
SubmitSaved ==
    /\ SubmitStep
    /\ toasts'[Len(toasts')] \in {"Bill updated successfully",
                                  "Bill recorded successfully"}

\* the bill handleSaveBill stored in the step
SavedBill ==
    IF billForm.id # ""
    THEN CHOOSE b \in {bills'[i] : i \in 1..Len(bills')} : b.id = billForm.id
    ELSE bills'[1]

\* C1: whenever handleSubmit accepts a submission, the saved paidAmount is
\* min(amount, paidAmount before the submit + newPaymentAmount).
C1_SavedPaidAmountIsMin ==
    [][SubmitSaved => SavedBill.paidAmount = ExpectedTotalPaid]_vars

\* C1 witness: bill-2 (450.75) was settled by partial payments of 400 and more,
\* so the sum passed the amount and was cut down to it
C1_Witness ==
    /\ toasts = <<"Status Updated", "Bill updated successfully">>
    /\ \E i \in 1..Len(bills) :
          /\ bills[i].id = "bill-2"
          /\ bills[i].paidAmount = Rs(450, 75)

\* C2: in every state of the Bills list a Paid bill has paidAmount >= amount
\* and an Unpaid bill has paidAmount = 0.
C2_PaidAndUnpaidInvariant ==
    \A i \in 1..Len(bills) :
        /\ bills[i].status = "Paid" => bills[i].paidAmount >= bills[i].amount
        /\ bills[i].status = "Unpaid" => bills[i].paidAmount = 0

\* C2 witness: bill-1, Paid at the start, was saved as Unpaid, and a bill recorded
\* through the form stands as Paid
C2_Witness ==
    /\ \E i \in 1..Len(bills) :
          bills[i].id = "bill-1" /\ bills[i].status = "Unpaid"
    /\ \E j \in 1..Len(bills) :
          bills[j].id = "bill-new-1" /\ bills[j].status = "Paid"

\* C3: a submit with declared status Partially Paid whose total paid is above 0
\* and reaches the bill amount saves the bill as Paid.
C3_PartialPromotedToPaid ==
    [][(/\ SubmitStep
        /\ billForm.purchaseOrderId # ""
        /\ billForm.status = "Partially Paid"
        /\ ExpectedTotalPaid > 0
        /\ ExpectedTotalPaid >= billForm.amount)
       => (SubmitSaved /\ SavedBill.status = "Paid")]_vars

\* C3 witness: a bill of 800 recorded as Partially Paid 400 and then settled
\* by exactly the remaining 400
C3_Witness ==
    /\ toasts = <<"Status Updated", "Bill updated successfully">>
    /\ \E i \in 1..Len(bills) :
          /\ bills[i].id = "bill-new-1"
          /\ bills[i].amount = Rs(800, 0)
          /\ bills[i].paidAmount = Rs(800, 0)
          /\ bills[i].status = "Paid"

\* C4: a submit with declared status Paid whose total paid is below the bill
\* amount is rejected: nothing is saved and the list of bills is as before.
C4_PaidUnderpaidRejected ==
    [][(/\ SubmitStep
        /\ billForm.status = "Paid"
        /\ ExpectedTotalPaid < billForm.amount)
       => (~SubmitSaved /\ bills' = bills)]_vars

\* C4 witness: the form stands rejected with Paid declared and less than the
\* amount on hand
C4_Witness ==
    /\ billModalOpen
    /\ toasts = <<"Insufficient Payment">>
    /\ billForm.status = "Paid"
    /\ ExpectedTotalPaid < billForm.amount

\* C5: a submit with declared status Partially Paid whose total paid is <= 0 is
\* rejected: nothing is saved and the list of bills is as before.
C5_EmptyPartialRejected ==
    [][(/\ SubmitStep
        /\ billForm.status = "Partially Paid"
        /\ ExpectedTotalPaid <= 0)
       => (~SubmitSaved /\ bills' = bills)]_vars

\* C5 witness: the form stands rejected with Partially Paid declared and nothing paid
C5_Witness ==
    /\ billModalOpen
    /\ toasts = <<"Invalid Amount">>
    /\ billForm.status = "Partially Paid"
    /\ ExpectedTotalPaid <= 0

\* C6: every Partially Paid bill of the list has 0 < paidAmount < amount.
C6_PartiallyPaidInvariant ==
    \A i \in 1..Len(bills) :
        bills[i].status = "Partially Paid" =>
            (0 < bills[i].paidAmount /\ bills[i].paidAmount < bills[i].amount)

\* C6 witness: bill-1 (1425.00) is Partially Paid after two partial payments
C6_Witness ==
    \E i \in 1..Len(bills) :
        /\ bills[i].status = "Partially Paid"
        /\ bills[i].paidAmount = Rs(800, 0)
        /\ bills[i].amount = Rs(1425, 0)

\* the form before the step fails one of handleSubmit's validations
FailsValidation ==
    \/ billForm.purchaseOrderId = ""
    \/ billForm.status = "Paid" /\ ExpectedTotalPaid < billForm.amount
    \/ billForm.status = "Partially Paid" /\ ExpectedTotalPaid <= 0

\* C7: a submit that fails validation is not partially applied: the list of
\* bills, the form's fields and the pending pay-now amount are unchanged and the
\* form stays open.
C7_RejectedSubmitChangesNothing ==
    [][(SubmitStep /\ FailsValidation)
       => (/\ bills' = bills
           /\ billForm' = billForm
           /\ newPaymentAmount' = newPaymentAmount
           /\ selectedBill' = selectedBill
           /\ billModalOpen')]_vars

\* C7 witness: a rejected submit left a pending pay-now amount in the open form
C7_Witness ==
    /\ billModalOpen
    /\ toasts # <<>>
    /\ toasts[1] \in {"Selection Required", "Invalid Amount", "Insufficient Payment"}
    /\ newPaymentAmount > 0

(***************************************************************************)
(* Properties of the sales order form (SpecSalesForm) and of the list of    *)
(* sales orders (SpecSales)                                                *)
(***************************************************************************)
\* the sum of the line totals of a list of items, added up from the last row
RECURSIVE LineTotalsSum(_)
LineTotalsSum(items) ==
    IF Len(items) = 0 THEN 0
    ELSE LineTotalsSum(SubSeq(items, 1, Len(items) - 1)) + items[Len(items)].total

\* the form was started from the empty default: it was opened for a new order
StartedFromDefault == selectedOrder = <<>>

\* C8: in the sales order form started from the empty default every line item
\* has total = quantity x sellingPrice, and subTotal is the sum of the line
\* totals of the items in the form.
C8_LineTotalsAndSubTotal ==
    StartedFromDefault =>
        /\ \A i \in 1..Len(orderForm.items) :
              orderForm.items[i].total =
                  orderForm.items[i].quantity * orderForm.items[i].sellingPrice
        /\ orderForm.subTotal = LineTotalsSum(orderForm.items)

\* C8 witness: a new order with two rows, 2 x 349.99 with the price filled in
\* by the product picked and 1 x 349.99 with the price typed in
C8_Witness ==
    /\ StartedFromDefault /\ salesModalOpen
    /\ Len(orderForm.items) = 2
    /\ orderForm.items[1].productId = "P-001"
    /\ orderForm.items[1].total = Rs(699, 98)
    /\ orderForm.items[2].productId = ""
    /\ orderForm.items[2].total = Rs(349, 99)
    /\ orderForm.subTotal = Rs(1049, 97)

\* C9: in the sales order form started from the empty default
\* gstAmount = subTotal x gstPercentage / 100 and grandTotal = subTotal +
\* gstAmount, with gstPercentage >= 0.
C9_GstAndGrandTotal ==
    StartedFromDefault =>
        /\ orderForm.gstPercentage >= 0
        /\ orderForm.gstAmount * 100 = orderForm.subTotal * orderForm.gstPercentage
        /\ orderForm.grandTotal = orderForm.subTotal + orderForm.gstAmount

\* C9 witness: a new order with one row of 349.99 left after 18 % GST was set
\* and rows were edited
C9_Witness ==
    /\ StartedFromDefault /\ salesModalOpen
    /\ orderForm.gstPercentage = 18
    /\ Len(orderForm.items) = 1
    /\ orderForm.subTotal = Rs(349, 99)
    /\ orderForm.gstAmount = 629982
    /\ orderForm.grandTotal = Rs(349, 99) + 629982

\* C10: every sales order of the list, the initial ones included, has subTotal
\* equal to the sum of its line totals, gstAmount = subTotal x gstPercentage /
\* 100 and grandTotal = subTotal + gstAmount.
C10_OrdersSatisfyDataModel ==
    \A i \in 1..Len(orders) :
        /\ orders[i].subTotal = LineTotalsSum(orders[i].items)
        /\ orders[i].gstAmount * 100 = orders[i].subTotal * orders[i].gstPercentage
        /\ orders[i].grandTotal = orders[i].subTotal + orders[i].gstAmount

\* the step is handleRemoveItem called with the row id of row i of the open form
RemovedRow(i) ==
    /\ salesModalOpen /\ salesModalOpen'
    /\ Len(orderForm'.items) + 1 = Len(orderForm.items)
    /\ orderForm' = RemoveItemResult(orderForm, orderForm.items[i].id)

\* C11: once handleRemoveItem has removed the last remaining line item,
\* subTotal, gstAmount and grandTotal are all 0, whatever the GST percentage and
\* the totals held before, those loaded from an existing order included.
C11_RemovingLastItemZeroesTotals ==
    [][(Len(orderForm.items) = 1 /\ RemovedRow(1))
       => (/\ orderForm'.items = <<>>
           /\ orderForm'.subTotal = 0
           /\ orderForm'.gstAmount = 0
           /\ orderForm'.grandTotal = 0)]_vars

\* C11 witness: the only row of so-init-1 (18 % GST, totals 699.98 / 126.00 /
\* 825.98 when loaded) was removed in the form
C11_Witness ==
    /\ salesModalOpen
    /\ selectedOrder # <<>> /\ selectedOrder[1].id = "so-init-1"
    /\ selectedOrder[1].grandTotal = Rs(825, 98)
    /\ orderForm.gstPercentage = 18
    /\ orderForm.items = <<>>
    /\ orderForm.grandTotal = 0

\* C12: in every state of the sales order form each line item's quantity and
\* sellingPrice are >= 0, the GST percentage is >= 0, and subTotal, gstAmount
\* and grandTotal are >= 0.
C12_FormNumbersNonNegative ==
    /\ \A i \in 1..Len(orderForm.items) :
          orderForm.items[i].quantity >= 0 /\ orderForm.items[i].sellingPrice >= 0
    /\ orderForm.gstPercentage >= 0
    /\ orderForm.subTotal >= 0
    /\ orderForm.gstAmount >= 0
    /\ orderForm.grandTotal >= 0

\* C12 witness: a row of so-init-2 (10 x 19.99) stands at quantity 0 after a
\* negative quantity was put in, next to a row priced 0 after a negative price
C12_Witness ==
    /\ salesModalOpen
    /\ selectedOrder # <<>> /\ selectedOrder[1].id = "so-init-2"
    /\ Len(orderForm.items) = 2
    /\ orderForm.items[1].quantity = 0
    /\ orderForm.items[1].sellingPrice = Rs(19, 99)
    /\ orderForm.items[2].quantity = 5
    /\ orderForm.items[2].sellingPrice = 0
    /\ orderForm.subTotal = 0

\* C13: applying the same handleItemChange (same row, field and value) or the
\* same handleGstChange once more leaves the form in exactly the state reached
\* after applying it once, from every state of the open form.
C13_RecomputationIdempotent ==
    salesModalOpen =>
        /\ \A i \in 1..Len(orderForm.items), input \in ItemInputs :
              LET rowId == orderForm.items[i].id
                  once == ItemChangeResult(orderForm, rowId, input[1], input[2])
              IN  ItemChangeResult(once, rowId, input[1], input[2]) = once
        /\ \A input \in GstInputs :
              LET once == GstChangeResult(orderForm, ParsedGst(input))
              IN  GstChangeResult(once, ParsedGst(input)) = once

\* C13 witness: a new order whose row was set to quantity 2 and price 349.99
\* and whose GST was set to 18 %, the totals standing as one application left
\* them
C13_Witness ==
    /\ salesModalOpen
    /\ selectedOrder = <<>>
    /\ Len(orderForm.items) = 1
    /\ orderForm.items[1].quantity = 2
    /\ orderForm.items[1].productId = ""
    /\ orderForm.items[1].sellingPrice = Rs(349, 99)
    /\ orderForm.items[1].total = Rs(699, 98)
    /\ orderForm.gstPercentage = 18
    /\ orderForm.gstAmount = 1259964
    /\ orderForm.grandTotal = Rs(699, 98) + 1259964

\* C14: handleRemoveItem(rowId) removes exactly the line item with that row
\* id, leaves every other line item and the GST percentage, status, reference
\* and customer unchanged, and sets subTotal to the sum of the totals of the
\* remaining items only.
C14_RemoveItemFrame ==
    [][\A i \in 1..Len(orderForm.items) :
          RemovedRow(i) =>
              /\ orderForm'.items = SubSeq(orderForm.items, 1, i - 1)
                                    \o SubSeq(orderForm.items, i + 1,
                                              Len(orderForm.items))
              /\ \A k \in 1..Len(orderForm'.items) :
                    orderForm'.items[k].id # orderForm.items[i].id
              /\ orderForm'.gstPercentage = orderForm.gstPercentage
              /\ orderForm'.status = orderForm.status
              /\ orderForm'.referenceNo = orderForm.referenceNo
              /\ orderForm'.customerName = orderForm.customerName
              /\ orderForm'.id = orderForm.id
              /\ orderForm'.subTotal = LineTotalsSum(orderForm'.items)]_vars

\* C14 witness: the second row of so-init-2 was removed and its first row,
\* 10 x 19.99, stands alone with the subtotal 199.90
C14_Witness ==
    /\ salesModalOpen
    /\ selectedOrder # <<>> /\ selectedOrder[1].id = "so-init-2"
    /\ orderForm.items = <<selectedOrder[1].items[1]>>
    /\ orderForm.subTotal = Rs(199, 90)
    /\ orderForm.customerName = "Bob Jones"

(***************************************************************************)
(* Properties of the product form (SpecProducts)                           *)
(***************************************************************************)
\* the status the product form is to save for an active switch, a stock and a
\* minimum stock level, case by case
ExpectedStatus(isActive, stockLevel, minStock) ==
    CASE ~isActive -> "Inactive"
      [] isActive /\ stockLevel = 0 -> "Out of Stock"
      [] isActive /\ 0 < stockLevel /\ stockLevel <= minStock -> "Low Stock"
      [] isActive /\ 0 < stockLevel /\ stockLevel > minStock -> "Active"

\* the step is a run of the product form's handleSubmit that called onSave
ProductSaveStep ==
    /\ productModalOpen
    /\ toasts' \in {<<"Product updated successfully">>,
                    <<"Product added successfully">>}

\* the product handleSaveProduct stored in the step
SavedProduct ==
    IF productForm.id # ""
    THEN CHOOSE q \in {products'[i] : i \in 1..Len(products')} : q.id = productForm.id
    ELSE products'[1]

\* C15: the status saved by the product form is a function of (isActive,
\* stock, minStock): Inactive when not marked active; otherwise Out of Stock
\* when stock = 0, Low Stock when 0 < stock <= minStock and Active when stock >
\* minStock, for all non-negative stock and minStock, minStock = 0 included.
C15_SavedStatusIsFunction ==
    /\ \A isActive \in BOOLEAN, stockLevel \in 0..MaxStockLevel,
          minStock \in 0..MaxStockLevel :
          CalculatedStatus([defaultProductFormData EXCEPT
                               !.isActive = isActive, !.stock = stockLevel,
                               !.minStock = minStock])
              = ExpectedStatus(isActive, stockLevel, minStock)
    /\ [][ProductSaveStep =>
             /\ SavedProduct.stock = productForm.stock
             /\ SavedProduct.minStock = productForm.minStock
             /\ SavedProduct.isActive = productForm.isActive
             /\ SavedProduct.status =
                   ExpectedStatus(productForm.isActive, productForm.stock,
                                  productForm.minStock)]_vars

\* C15 witness: P-001 was saved with stock 10 at the minimum stock level 10 and
\* stands as Low Stock, and P-003 was saved with the switch off and stands as
\* Inactive
C15_Witness ==
    /\ toasts = <<"Product updated successfully">>
    /\ \E i \in 1..Len(products) :
          /\ products[i].id = "P-001"
          /\ products[i].stock = 10 /\ products[i].minStock = 10
          /\ products[i].status = "Low Stock"
    /\ \E j \in 1..Len(products) :
          /\ products[j].id = "P-003"
          /\ ~products[j].isActive
          /\ products[j].status = "Inactive"

(***************************************************************************)
(* Properties of deleting an order (SpecOrderDeletion)                     *)
(***************************************************************************)
\* after is before with the one order of that id taken out, the others as
\* they were and in their order
OnlyRemoved(before, after, id) ==
    \E k \in 1..Len(before) :
        /\ before[k].id = id
        /\ after = SubSeq(before, 1, k - 1) \o SubSeq(before, k + 1, Len(before))

SalesDeleteStep == orderToDelete # "" /\ toasts' = <<"Sales Order deleted">>

PurchaseDeleteStep ==
    purchaseOrderToDelete # "" /\ toasts' = <<"Purchase Order deleted">>

\* C16: deleting a sales order or a purchase order takes only that order out
\* of its list and leaves the stock of every product as it was, also when the
\* deleted order was Shipped/Completed and had adjusted stock.
C16_DeleteOrderFrame ==
    [][/\ SalesDeleteStep =>
            /\ OnlyRemoved(orders, orders', orderToDelete)
            /\ stock' = stock
            /\ purchaseOrders' = purchaseOrders
       /\ PurchaseDeleteStep =>
            /\ OnlyRemoved(purchaseOrders, purchaseOrders', purchaseOrderToDelete)
            /\ stock' = stock
            /\ orders' = orders]_vars

\* so-init-2 was saved as Shipped or Completed, which took its 10 of P-003 and
\* 5 of P-005 from stock, and was then deleted: the stock stays deducted
C16_Witness ==
    /\ route = "/sales-orders"
    /\ toasts = <<"Sales Order deleted">>
    /\ orders = <<initialOrders[1]>>
    /\ stock["P-003"] = 2
    /\ stock["P-005"] = 3
    /\ stock["P-001"] = 5

(***************************************************************************)
(* Properties of the Suppliers page (SpecSuppliers)                        *)
(***************************************************************************)
\* the supplier form opened by Add Supplier is submitted
NewSupplierSubmit ==
    /\ supplierModalOpen /\ supplierToDelete = ""
    /\ selectedSupplier = <<>>
    /\ toasts' \in {<<"Supplier added successfully">>,
                    <<"Supplier updated successfully">>}

\* C17: submitting the supplier form opened for a new supplier adds exactly
\* one entry, carrying the id generated in the form, to the list of suppliers,
\* and leaves the suppliers already listed as they were.
C17_NewSupplierSubmitAddsEntry ==
    [][NewSupplierSubmit =>
          /\ Len(suppliers') = Len(suppliers) + 1
          /\ OnlyRemoved(suppliers', suppliers, supplierForm.id)]_vars

(***************************************************************************)
(* Properties of the stock under saves of sales orders (SpecSalesStock)    *)
(***************************************************************************)
\* the quantity of one product in a list of items, added up from the last row
RECURSIVE QuantityOf(_, _)
QuantityOf(items, productId) ==
    IF Len(items) = 0 THEN 0
    ELSE QuantityOf(SubSeq(items, 1, Len(items) - 1), productId)
         + (IF items[Len(items)].productId = productId
            THEN items[Len(items)].quantity ELSE 0)

\* st with the quantities of the items taken out
StockLess(st, items) == [id \in DOMAIN st |-> st[id] - QuantityOf(items, id)]

\* st with the quantities of the items put back
StockMore(st, items) == [id \in DOMAIN st |-> st[id] + QuantityOf(items, id)]

\* a step that runs handleSaveOrder on the form
SalesSaveStep == salesSaves' = salesSaves + 1

\* the status the order in the form has in the list, "none" for a new order
PreviousStatus ==
    LET at == {i \in 1..Len(orders) : orders[i].id = orderForm.id}
    IN  IF orderForm.id = "" \/ at = {} THEN "none"
        ELSE orders[CHOOSE i \in at : TRUE].status

Fulfilled == {"Shipped", "Completed"}

Unfulfilled == {"Pending", "Cancelled"}

\* C18: a save of a sales order takes each line item's quantity out of the
\* matching product's stock exactly when the order enters Shipped or Completed
\* as a new order or from Pending or Cancelled; a save between Shipped and
\* Completed, or between Pending and Cancelled, changes no stock.
C18_DeductedOnEnteringFulfilled ==
    [][SalesSaveStep =>
          LET enters == /\ PreviousStatus \in Unfulfilled \cup {"none"}
                        /\ orderForm.status \in Fulfilled
          IN  /\ enters => stock' = StockLess(stock, orderForm.items)
              /\ ~enters => \A id \in DOMAIN stock : stock'[id] >= stock[id]
              /\ PreviousStatus \in Fulfilled /\ orderForm.status \in Fulfilled
                    => stock' = stock
              /\ PreviousStatus \in Unfulfilled \cup {"none"}
                    /\ orderForm.status \in Unfulfilled
                    => stock' = stock]_vars

\* a new order for one P-001 was saved as Completed: 5 in stock became 4
C18_Witness ==
    /\ toasts = <<"Inventory Updated", "Sales Order created">>
    /\ orders[1].id = "so-new-1"
    /\ orders[1].status = "Completed"
    /\ Len(orders[1].items) = 1
    /\ orders[1].items[1].productId = "P-001"
    /\ stock["P-001"] = 4

\* the order in the form as the list holds it
StoredOrder == FindOrder(orders, orderForm.id)

\* so-init-2, Pending at the start, was saved twice and nothing else was:
\* it is Cancelled with the line items it had at the start, so-init-1 is as
\* it was, and the last save was the one that gave stock back
RoundTripOfSecondOrder ==
    /\ salesSaves = 2
    /\ toasts = <<"Stock Reverted", "Sales Order updated">>
    /\ orders = <<initialOrders[1],
                  [initialOrders[2] EXCEPT !.status = "Cancelled"]>>

\* C19: a sales order moved from Pending to Shipped or Completed and then to
\* Cancelled, its line items the same in both saves, leaves every product's
\* stock at the value it had before the first save: the first save takes the
\* items' quantities out and stores the items, the second puts the stored
\* items' quantities back, and putting back undoes taking out.
C19_ShipThenCancelRestoresStock ==
    /\ [](RoundTripOfSecondOrder =>
             stock = [id \in ProductIds |-> FindProduct(id)[1].stock])
    /\ [][SalesSaveStep =>
             /\ PreviousStatus = "Pending" /\ orderForm.status \in Fulfilled
                  => /\ stock' = StockLess(stock, orderForm.items)
                     /\ StockMore(stock', orderForm.items) = stock
                     /\ FindOrder(orders', orderForm.id)[1].items = orderForm.items
             /\ PreviousStatus \in Fulfilled /\ orderForm.status = "Cancelled"
                  /\ orderForm.items = StoredOrder[1].items
                  => stock' = StockMore(stock, StoredOrder[1].items)]_vars

\* so-init-2 went from Pending to Shipped or Completed and on to Cancelled:
\* P-003 is back at 12 and P-005 at 8
C19_Witness ==
    /\ RoundTripOfSecondOrder
    /\ stock["P-003"] = 12
    /\ stock["P-005"] = 8
    /\ stock["P-001"] = 5

\* the quantity of one product in the orders of a list that are Shipped or
\* Completed
RECURSIVE FulfilledQuantity(_, _)
FulfilledQuantity(list, productId) ==
    IF Len(list) = 0 THEN 0
    ELSE FulfilledQuantity(SubSeq(list, 1, Len(list) - 1), productId)
         + (IF list[Len(list)].status \in Fulfilled
            THEN QuantityOf(list[Len(list)].items, productId) ELSE 0)

\* the stock before any sales order was fulfilled: what mockProducts holds at
\* the start is taken to have the seed orders' fulfilled quantities out already
StockBeforeSales(productId) ==
    FindProduct(productId)[1].stock + FulfilledQuantity(initialOrders, productId)

\* C20: after any creations and edits of sales orders, with no deletion, each
\* product's stock is its initial stock less the quantity of that product in
\* the orders that are Shipped or Completed now.
C20_StockMatchesFulfilledOrders ==
    \A id \in ProductIds :
        stock[id] = StockBeforeSales(id) - FulfilledQuantity(orders, id)

\* C21: no product's stock is ever negative, whatever sales orders are saved.
C21_StockNeverNegative ==
    \A id \in ProductIds : stock[id] >= 0

(***************************************************************************)
(* Properties of the stock under saves of purchase orders                  *)
(* (SpecPurchaseStock, SpecPurchaseStatus)                                 *)
(***************************************************************************)
\* a step that runs the Purchase Orders page's handleSaveOrder on the form
PurchaseSaveStep == purchaseSaves' = purchaseSaves + 1

\* the status the purchase order in the form has in the list, "none" for a new
\* order
PreviousPurchaseStatus ==
    LET at == {i \in 1..Len(purchaseOrders) :
                  purchaseOrders[i].id = purchaseOrderForm.id}
    IN  IF purchaseOrderForm.id = "" \/ at = {} THEN "none"
        ELSE purchaseOrders[CHOOSE i \in at : TRUE].status

\* C22: a save of a purchase order puts each line item's quantity into the
\* matching product's stock when the order becomes Completed, as a new order
\* or from a status other than Completed; any other save changes no stock.
C22_ReceivedOnBecomingCompleted ==
    [][PurchaseSaveStep =>
          IF PreviousPurchaseStatus # "Completed"
             /\ purchaseOrderForm.status = "Completed"
          THEN stock' = StockMore(stock, purchaseOrderForm.items)
          ELSE stock' = stock]_vars

\* a new purchase order for two P-003 was saved as Completed: 12 in stock
\* became 14
C22_Witness ==
    /\ toasts = <<"Stock Updated", "Purchase Order created">>
    /\ purchaseOrders[1].id = "po-new-1"
    /\ purchaseOrders[1].status = "Completed"
    /\ purchaseOrders[1].items = <<[productId |-> "P-003", quantity |-> 2]>>
    /\ stock["P-003"] = 14

\* the quantity of one product in all the purchase orders of a list
RECURSIVE OrderedQuantity(_, _)
OrderedQuantity(list, productId) ==
    IF Len(list) = 0 THEN 0
    ELSE OrderedQuantity(SubSeq(list, 1, Len(list) - 1), productId)
         + QuantityOf(list[Len(list)].items, productId)

\* C23: over the lifetime of a purchase order, whatever status edits are
\* saved, its quantities go into stock at most once: with every listed order
\* allowed one receipt, a product's stock is never above its stock at the
\* start plus the quantity of it in all the listed orders.
C23_ReceivedAtMostOnce ==
    \A id \in ProductIds :
        stock[id] <= FindProduct(id)[1].stock + OrderedQuantity(purchaseOrders, id)

(***************************************************************************)
(* Properties of billing a purchase order (SpecBilling)                    *)
(***************************************************************************)
\* the purchase order of that id, as the bill form is given it, is Completed
IsCompletedPurchaseOrder(id) ==
    \E i \in 1..Len(mockPurchaseOrders) :
        mockPurchaseOrders[i].id = id /\ mockPurchaseOrders[i].status = "Completed"

\* the bills recorded through the form, the seed bills left aside
RecordedBills ==
    {i \in 1..Len(bills) :
        \A j \in 1..Len(initialBills) : bills[i].id # initialBills[j].id}

\* C24: a bill is recorded against a Completed purchase order only: the form
\* for a new bill holds no purchase order or a Completed one, every bill saved
\* from it carries a Completed one, and handleGenerateBill answers an order
\* that is not Completed with the error and generates a bill for no other
\* than a Completed order.
C24_BilledOrdersAreCompleted ==
    /\ [](/\ billModalOpen /\ selectedBill = <<>> /\ billForm.purchaseOrderId # ""
               => IsCompletedPurchaseOrder(billForm.purchaseOrderId)
          /\ \A i \in RecordedBills :
                 IsCompletedPurchaseOrder(bills[i].purchaseOrderId)
          /\ \A i \in 1..Len(purchaseOrders) :
                 purchaseOrders[i].status # "Completed"
                    => GenerateBillToasts(purchaseOrders[i]) = <<"Error">>)
    /\ [][route = "/purchase-orders" /\ toasts' = <<"Bill Generated">> =>
             /\ \E i \in 1..Len(purchaseOrders) : purchaseOrders[i].status = "Completed"
             /\ purchaseOrders' = purchaseOrders]_vars

\* a new bill was recorded against PO-00102, which is Completed
C24_Witness ==
    /\ route = "/bills"
    /\ Len(bills) = 3
    /\ bills[1].id = "bill-new-1"
    /\ bills[1].purchaseOrderId = "po-init-3"
    /\ bills[1].amount = Rs(800, 0)
    /\ toasts = <<"Bill recorded successfully">>

(***************************************************************************)
(* Properties of the delete dialogs (SpecRecordDeletion)                   *)
(***************************************************************************)
RecordIds(list) == {list[i].id : i \in 1..Len(list)}

\* a list with every record of that id left out, built up from the last record
RECURSIVE Remaining(_, _)
Remaining(list, id) ==
    IF Len(list) = 0 THEN <<>>
    ELSE LET front == Remaining(SubSeq(list, 1, Len(list) - 1), id)
         IN  IF list[Len(list)].id = id THEN front
             ELSE Append(front, list[Len(list)])

\* one step seen from a page's list and its delete dialog; pending is the id
\* the dialog asks about ("" with the dialog closed), deleted the toast of the
\* page's delete handler
DeleteFlow(list, listAfter, pending, pendingAfter, deleted) ==
    \* the request names a listed record and changes no list
    /\ pending = "" /\ pendingAfter # ""
          => pendingAfter \in RecordIds(list) /\ listAfter = list
    \* a record leaves the list in the confirmed delete only
    /\ RecordIds(list) \ RecordIds(listAfter) # {}
          => pending # "" /\ toasts' = <<deleted>>
    \* the confirmed delete takes out the record of the requested id, no other
    /\ toasts' = <<deleted>>
          => /\ pending \in RecordIds(list)
             /\ listAfter = Remaining(list, pending)
             /\ pendingAfter = ""
    \* the dialog cancelled leaves the list as it was
    /\ pending # "" /\ pendingAfter = "" /\ toasts' # <<deleted>>
          => listAfter = list

\* C25: a bill, sales order, supplier or product leaves its list only by a
\* delete request for its id followed by the confirmation in the dialog; a
\* request followed by Cancel leaves the list as it was, and the confirmed
\* delete removes the record of that id and no other.
C25_DeleteOnlyAfterConfirmation ==
    [][/\ DeleteFlow(bills, bills', billToDelete, billToDelete', "Bill deleted")
       /\ DeleteFlow(orders, orders', orderToDelete, orderToDelete',
                     "Sales Order deleted")
       /\ DeleteFlow(suppliers, suppliers', supplierToDelete, supplierToDelete',
                     "Supplier removed")
       /\ DeleteFlow(products, products', productToDelete, productToDelete',
                     "Product deleted")]_vars

\* bill-1 was asked to be deleted and the dialog confirmed: bill-2 is left
C25_Witness ==
    /\ route = "/bills"
    /\ toasts = <<"Bill deleted">>
    /\ billToDelete = ""
    /\ bills = <<initialBills[2]>>

====
